---- MODULE Spec2Model ----
(***************************************************************************)
(* Model of the translation and pagination layer of mcp-server-anki        *)
(* (src/main.go): the path identifier parser, the cursor codec, the        *)
(* pagination engine, identifier coercion and the backend RPC client.      *)
(*                                                                         *)
(* Go strings and []byte are sequences of bytes (0..255).  Go interface{}  *)
(* values are records tagged by their dynamic type in field t:             *)
(*   nil      [t |-> "nil"]                                                *)
(*   bool     [t |-> "bool", b]                                            *)
(*   int      [t |-> "int", n]                                             *)
(*   float64  [t |-> "float64", n, d]  the decimal fraction n/d, d a power *)
(*            of ten and minimal; d = 0 stands for NaN and the infinities  *)
(*   string   [t |-> "string", s]                                          *)
(*   []interface{}            [t |-> "slice", l]                           *)
(*   map[string]interface{}   [t |-> "map", m]  m a function on its keys   *)
(***************************************************************************)
EXTENDS Integers, Sequences, FiniteSets, TLC

VARIABLES
  items,      \* paginateList: the list being paged (held fixed)
  pageSize,   \* paginateList: the page size
  cursor,     \* the cursor the chain's next call will pass ("" at first)
  visited,    \* the items the chain has returned so far, in order
  calls,      \* number of paginateList calls the chain has made
  chain,      \* "running" | "done" | "failed": state of the cursor chain
  lastCall,   \* the last paginateList call: arguments and result
  codec,      \* the last encodeCursor / decodeCursor round trip
  pathCall,   \* the last parseIDsFromPath call: argument and result
  coerceCall, \* the last identifier coercion: batch and result
  rpc,        \* the ankiRequest invocation in progress
  inv,        \* the handler invocation in progress
  pool,       \* the handler invocations the framework runs concurrently
  wire        \* the requests and responses of the pool, in the order they happened

vars == <<items, pageSize, cursor, visited, calls, chain, lastCall,
          codec, pathCall, coerceCall, rpc, inv, pool, wire>>

(***************************************************************************)
(* Sequences and bytes                                                     *)
(***************************************************************************)
Range(s) == {s[i] : i \in DOMAIN s}

Min(a, b) == IF a < b THEN a ELSE b

Last(s) == s[Len(s)]

Slice(s, lo, hi) == [i \in 1..(hi - lo) |-> s[lo + i]]   \* Go s[lo:hi], 0-based

RECURSIVE Concat(_)
Concat(ss) == IF ss = <<>> THEN <<>> ELSE Head(ss) \o Concat(Tail(ss))

\* Lexicographic order of two byte strings (Go's string <).
RECURSIVE BytesLess(_, _)
BytesLess(a, b) ==
  IF b = <<>> THEN FALSE
  ELSE IF a = <<>> THEN TRUE
  ELSE IF Head(a) # Head(b) THEN Head(a) < Head(b)
  ELSE BytesLess(Tail(a), Tail(b))

IsDigit(b) == b \in 48..57

\* Go's int(f) on a float64 n/d: truncation toward zero.
TruncDiv(n, d) == IF n >= 0 THEN n \div d ELSE -((-n) \div d)

\* The byte at index i, -1 past either end.
At(data, i) == IF i \in DOMAIN data THEN data[i] ELSE -1

\* unicode/utf8: the length of the valid encoding that starts with byte b
\* followed by c1, c2, c3; 0 when there is none (DecodeRune gives RuneError, 1).
UTF8SizeOf(b, c1, c2, c3) ==
  IF b < 128 THEN 1
  ELSE IF b \in 194..223 /\ c1 \in 128..191 THEN 2
  ELSE IF b = 224 /\ c1 \in 160..191 /\ c2 \in 128..191 THEN 3
  ELSE IF b \in (225..236) \cup {238, 239} /\ c1 \in 128..191 /\ c2 \in 128..191 THEN 3
  ELSE IF b = 237 /\ c1 \in 128..159 /\ c2 \in 128..191 THEN 3
  ELSE IF b = 240 /\ c1 \in 144..191 /\ c2 \in 128..191 /\ c3 \in 128..191 THEN 4
  ELSE IF b \in 241..243 /\ c1 \in 128..191 /\ c2 \in 128..191 /\ c3 \in 128..191 THEN 4
  ELSE IF b = 244 /\ c1 \in 128..143 /\ c2 \in 128..191 /\ c3 \in 128..191 THEN 4
  ELSE 0

UTF8Size(s, i) == UTF8SizeOf(At(s, i), At(s, i + 1), At(s, i + 2), At(s, i + 3))

\* U+FFFD, what an invalid byte is read as.
RuneError == <<239, 191, 189>>

RECURSIVE Pow10(_)
Pow10(k) == IF k <= 0 THEN 1 ELSE 10 * Pow10(k - 1)

(***************************************************************************)
(* strconv: decimal formatting and parsing of ints                         *)
(***************************************************************************)
RECURSIVE ItoaNat(_)
ItoaNat(n) == IF n < 10 THEN <<48 + n>> ELSE ItoaNat(n \div 10) \o <<48 + (n % 10)>>

Itoa(n) == IF n < 0 THEN <<45>> \o ItoaNat(-n) ELSE ItoaNat(n)

RECURSIVE DigitsValue(_, _)
DigitsValue(ds, acc) ==
  IF ds = <<>> THEN acc ELSE DigitsValue(Tail(ds), 10 * acc + (Head(ds) - 48))

\* strconv.Atoi: an optional sign, then one or more decimal digits, nothing else.
Atoi(s) ==
  LET signed == s # <<>> /\ Head(s) \in {43, 45}
      ds     == IF signed THEN Tail(s) ELSE s
  IN IF ds = <<>> \/ \E i \in DOMAIN ds : ~IsDigit(ds[i])
       THEN [ok |-> FALSE, n |-> 0]
       ELSE [ok |-> TRUE,
             n  |-> IF signed /\ Head(s) = 45 THEN -DigitsValue(ds, 0)
                    ELSE DigitsValue(ds, 0)]

(***************************************************************************)
(* encoding/base64, StdEncoding (padded, not strict)                       *)
(***************************************************************************)
B64Char(v) ==
  IF v < 26 THEN 65 + v
  ELSE IF v < 52 THEN 97 + (v - 26)
  ELSE IF v < 62 THEN 48 + (v - 52)
  ELSE IF v = 62 THEN 43 ELSE 47

B64Value(c) ==
  IF c \in 65..90 THEN c - 65
  ELSE IF c \in 97..122 THEN c - 97 + 26
  ELSE IF c \in 48..57 THEN c - 48 + 52
  ELSE IF c = 43 THEN 62
  ELSE IF c = 47 THEN 63
  ELSE -1

RECURSIVE Base64Encode(_)
Base64Encode(src) ==
  IF src = <<>> THEN <<>>
  ELSE IF Len(src) = 1 THEN
    <<B64Char(src[1] \div 4), B64Char((src[1] % 4) * 16), 61, 61>>
  ELSE IF Len(src) = 2 THEN
    <<B64Char(src[1] \div 4),
      B64Char((src[1] % 4) * 16 + src[2] \div 16),
      B64Char((src[2] % 16) * 4), 61>>
  ELSE
    <<B64Char(src[1] \div 4),
      B64Char((src[1] % 4) * 16 + src[2] \div 16),
      B64Char((src[2] % 16) * 4 + src[3] \div 64),
      B64Char(src[3] % 64)>> \o Base64Encode(SubSeq(src, 4, Len(src)))

\* The bytes of the quanta q (6-bit values, Len(q) in 2..4 for the last one).
RECURSIVE B64Quanta(_)
B64Quanta(q) ==
  IF Len(q) < 2 THEN <<>>
  ELSE LET b1 == q[1] * 4 + q[2] \div 16
       IN IF Len(q) = 2 THEN <<b1>>
          ELSE LET b2 == (q[2] % 16) * 16 + q[3] \div 4
               IN IF Len(q) = 3 THEN <<b1, b2>>
                  ELSE <<b1, b2, (q[3] % 4) * 64 + q[4]>>
                       \o B64Quanta(SubSeq(q, 5, Len(q)))

\* base64.StdEncoding.DecodeString: CR and LF are skipped wherever they are;
\* padding may only complete the last quantum; an unpadded tail is corrupt.
Base64Decode(str) ==
  LET s    == SelectSeq(str, LAMBDA c : c \notin {10, 13})
      pads == {i \in DOMAIN s : s[i] = 61}
      p    == IF pads = {} THEN Len(s) + 1
              ELSE CHOOSE i \in pads : \A j \in pads : i <= j
      body == SubSeq(s, 1, p - 1)
      j    == Len(body) % 4
      okBody == \A i \in DOMAIN body : B64Value(body[i]) >= 0
      okTail == IF pads = {} THEN j = 0
                ELSE \/ j = 3 /\ Len(s) = p
                     \/ j = 2 /\ Len(s) = p + 1 /\ s[p + 1] = 61
  IN IF okBody /\ okTail
       THEN [ok |-> TRUE, data |-> B64Quanta([i \in DOMAIN body |-> B64Value(body[i])])]
       ELSE [ok |-> FALSE, data |-> <<>>]

(***************************************************************************)
(* Go values                                                               *)
(***************************************************************************)
NilV == [t |-> "nil"]
BoolV(b) == [t |-> "bool", b |-> b]
IntV(n) == [t |-> "int", n |-> n]
StringV(s) == [t |-> "string", s |-> s]
SliceV(l) == [t |-> "slice", l |-> l]
\* A map[string]interface{}; isNil tells the nil map from the empty one.
MapV(m) == [t |-> "map", m |-> m, isNil |-> FALSE]
NilMap == [t |-> "map", m |-> <<>>, isNil |-> TRUE]

\* The float64 n/d with d a power of ten, in lowest terms.
RECURSIVE Float64V(_, _)
Float64V(n, d) ==
  IF d > 1 /\ n % 10 = 0 THEN Float64V(n \div 10, d \div 10)
  ELSE [t |-> "float64", n |-> n, d |-> d]

NaN == [t |-> "float64", n |-> 0, d |-> 0]

(***************************************************************************)
(* encoding/json: Marshal                                                  *)
(***************************************************************************)
HexDigit(v) == IF v < 10 THEN 48 + v ELSE 97 + (v - 10)

\* One byte of a string as json.Marshal writes it (HTML escaping is on).
EscapeByte(b) ==
  IF b = 34 THEN <<92, 34>>
  ELSE IF b = 92 THEN <<92, 92>>
  ELSE IF b = 10 THEN <<92, 110>>
  ELSE IF b = 13 THEN <<92, 114>>
  ELSE IF b = 9 THEN <<92, 116>>
  ELSE IF b < 32 \/ b \in {60, 62, 38}
    THEN <<92, 117, 48, 48, HexDigit(b \div 16), HexDigit(b % 16)>>
  ELSE <<b>>

\* The bytes of s from index i on as json.Marshal writes them: an invalid
\* byte becomes \ufffd, U+2028 and U+2029 are escaped, other runes are copied.
RECURSIVE EscapeFrom(_, _)
EscapeFrom(s, i) ==
  IF i > Len(s) THEN <<>>
  ELSE IF s[i] < 128 THEN EscapeByte(s[i]) \o EscapeFrom(s, i + 1)
  ELSE IF UTF8Size(s, i) = 0 THEN
    <<92, 117, 102, 102, 102, 100>> \o EscapeFrom(s, i + 1)
  ELSE IF s[i] = 226 /\ At(s, i + 1) = 128 /\ At(s, i + 2) \in {168, 169} THEN
    <<92, 117, 50, 48, 50, HexDigit(s[i + 2] - 160)>> \o EscapeFrom(s, i + 3)
  ELSE SubSeq(s, i, i + UTF8Size(s, i) - 1) \o EscapeFrom(s, i + UTF8Size(s, i))

\* MarshalString with the bug of writing the bytes unescaped.
MarshalStringRaw(s) == <<34>> \o s \o <<34>>

MarshalString(s) == <<34>> \o EscapeFrom(s, 1) \o <<34>>

\* k decimal digits of n, zero padded on the left.
RECURSIVE PadDigits(_, _)
PadDigits(n, k) ==
  IF k = 0 THEN <<>> ELSE PadDigits(n \div 10, k - 1) \o <<48 + (n % 10)>>

RECURSIVE Log10(_)
Log10(d) == IF d <= 1 THEN 0 ELSE 1 + Log10(d \div 10)

\* A finite float64 n/d in the 'f' format json.Marshal uses below 1e21.
MarshalFloat(n, d) ==
  LET a == IF n < 0 THEN -n ELSE n
  IN (IF n < 0 THEN <<45>> ELSE <<>>) \o ItoaNat(a \div d)
     \o (IF d = 1 THEN <<>> ELSE <<46>> \o PadDigits(a % d, Log10(d)))

RECURSIVE SortedKeys(_)
SortedKeys(S) ==
  IF S = {} THEN <<>>
  ELSE LET k == CHOOSE x \in S : \A y \in S \ {x} : BytesLess(x, y)
       IN <<k>> \o SortedKeys(S \ {k})

RECURSIVE JoinComma(_)
JoinComma(ss) ==
  IF ss = <<>> THEN <<>>
  ELSE IF Len(ss) = 1 THEN ss[1]
  ELSE JoinComma(SubSeq(ss, 1, Len(ss) \div 2)) \o <<44>>
       \o JoinComma(SubSeq(ss, Len(ss) \div 2 + 1, Len(ss)))

\* json.Marshal(v): [ok, data]; not ok for an unsupported value (NaN, Inf).
\* Map keys are written in sorted order, a nil map or slice as null.
RECURSIVE Marshal(_)
Marshal(v) ==
  IF v.t = "nil" THEN [ok |-> TRUE, data |-> <<110, 117, 108, 108>>]
  ELSE IF v.t = "bool" THEN
    [ok |-> TRUE, data |-> IF v.b THEN <<116, 114, 117, 101>>
                           ELSE <<102, 97, 108, 115, 101>>]
  ELSE IF v.t = "int" THEN [ok |-> TRUE, data |-> Itoa(v.n)]
  ELSE IF v.t = "float64" THEN
    IF v.d = 0 THEN [ok |-> FALSE, data |-> <<>>]
    ELSE [ok |-> TRUE, data |-> MarshalFloat(v.n, v.d)]
  ELSE IF v.t = "string" THEN [ok |-> TRUE, data |-> MarshalString(v.s)]
  ELSE IF v.t = "slice" THEN
    LET parts == [i \in DOMAIN v.l |-> Marshal(v.l[i])]
    IN IF \E i \in DOMAIN parts : ~parts[i].ok THEN [ok |-> FALSE, data |-> <<>>]
       ELSE [ok |-> TRUE,
             data |-> <<91>> \o JoinComma([i \in DOMAIN parts |-> parts[i].data])
                      \o <<93>>]
  ELSE \* "map"
    IF v.isNil THEN [ok |-> TRUE, data |-> <<110, 117, 108, 108>>]
    ELSE LET ks    == SortedKeys(DOMAIN v.m)
             parts == [i \in DOMAIN ks |-> Marshal(v.m[ks[i]])]
         IN IF \E i \in DOMAIN parts : ~parts[i].ok
              THEN [ok |-> FALSE, data |-> <<>>]
              ELSE [ok |-> TRUE,
                    data |-> <<123>>
                      \o JoinComma([i \in DOMAIN ks |->
                           MarshalString(ks[i]) \o <<58>> \o parts[i].data])
                      \o <<125>>]

(***************************************************************************)
(* encoding/json: the scanner.  ParseValue reads one JSON value of data    *)
(* starting at index i (1-based) and returns [ok, pos, v]: pos is the      *)
(* index after the value and v its syntax tree:                            *)
(*   [t |-> "null"]  [t |-> "bool", b]  [t |-> "number", n, d]             *)
(*   [t |-> "string", s]  [t |-> "array", l]  [t |-> "object", mem]        *)
(* mem is the sequence of members [k, v] in the order written.             *)
(***************************************************************************)
ParseFail == [ok |-> FALSE, pos |-> 0, v |-> [t |-> "null"]]

IsJSONSpace(b) == b \in {32, 9, 13, 10}

RECURSIVE SkipSpace(_, _)
SkipSpace(data, i) ==
  IF i <= Len(data) /\ IsJSONSpace(data[i]) THEN SkipSpace(data, i + 1) ELSE i

\* The index after the run of digits that starts at i.
RECURSIVE DigitRun(_, _)
DigitRun(data, i) ==
  IF i <= Len(data) /\ IsDigit(data[i]) THEN DigitRun(data, i + 1) ELSE i


HexValue(c) ==
  IF c \in 48..57 THEN c - 48
  ELSE IF c \in 97..102 THEN c - 97 + 10
  ELSE IF c \in 65..70 THEN c - 65 + 10
  ELSE -1

\* The code point of the escape \uXXXX whose backslash is at i, or -1.
GetU4(data, i) ==
  IF At(data, i) = 92 /\ At(data, i + 1) = 117
     /\ \A k \in 2..5 : HexValue(At(data, i + k)) >= 0
    THEN HexValue(data[i + 2]) * 4096 + HexValue(data[i + 3]) * 256
         + HexValue(data[i + 4]) * 16 + HexValue(data[i + 5])
    ELSE -1

\* utf8.EncodeRune
EncodeRune(r) ==
  IF r < 128 THEN <<r>>
  ELSE IF r < 2048 THEN <<192 + (r \div 64), 128 + (r % 64)>>
  ELSE IF r < 65536 THEN
    <<224 + (r \div 4096), 128 + ((r \div 64) % 64), 128 + (r % 64)>>
  ELSE <<240 + (r \div 262144), 128 + ((r \div 4096) % 64),
         128 + ((r \div 64) % 64), 128 + (r % 64)>>

IsSurrogate(r) == r \in 55296..57343

\* The body of a string literal from index i on, acc the bytes read so far.
RECURSIVE ScanString(_, _, _)
ScanString(data, i, acc) ==
  LET c == At(data, i)
  IN IF c = -1 \/ c < 32 THEN ParseFail
     ELSE IF c = 34 THEN [ok |-> TRUE, pos |-> i + 1, v |-> [t |-> "string", s |-> acc]]
     ELSE IF c = 92 THEN
       LET e == At(data, i + 1)
       IN IF e \in {34, 92, 47} THEN ScanString(data, i + 2, Append(acc, e))
          ELSE IF e = 98 THEN ScanString(data, i + 2, Append(acc, 8))
          ELSE IF e = 102 THEN ScanString(data, i + 2, Append(acc, 12))
          ELSE IF e = 110 THEN ScanString(data, i + 2, Append(acc, 10))
          ELSE IF e = 114 THEN ScanString(data, i + 2, Append(acc, 13))
          ELSE IF e = 116 THEN ScanString(data, i + 2, Append(acc, 9))
          ELSE IF e = 117 THEN
            LET r  == GetU4(data, i)
                r2 == GetU4(data, i + 6)
            IN IF r < 0 THEN ParseFail
               ELSE IF ~IsSurrogate(r) THEN ScanString(data, i + 6, acc \o EncodeRune(r))
               ELSE IF r < 56320 /\ r2 \in 56320..57343 THEN
                 ScanString(data, i + 12,
                   acc \o EncodeRune(65536 + (r - 55296) * 1024 + (r2 - 56320)))
               ELSE ScanString(data, i + 6, acc \o EncodeRune(65533))
          ELSE ParseFail
     ELSE IF UTF8Size(data, i) = 0 THEN ScanString(data, i + 1, acc \o RuneError)
     ELSE ScanString(data, i + UTF8Size(data, i),
                     acc \o SubSeq(data, i, i + UTF8Size(data, i) - 1))

\* The value of the number literal data[i0..i3-1] (sign sgn): integer digits
\* up to i1, a fraction up to i2 when i2 > i1, an exponent from e0 when i3 > i2.
NumberValue(data, sgn, i0, i1, i2, e0, i3) ==
  LET k    == IF i2 > i1 THEN i2 - i1 - 1 ELSE 0
      mant == DigitsValue(SubSeq(data, i0, i1 - 1), 0) * Pow10(i2 - i1 - 1)
              + DigitsValue(SubSeq(data, i1 + 1, i2 - 1), 0)
      e    == IF i3 = i2 THEN 0
              ELSE IF At(data, e0 - 1) = 45 THEN -DigitsValue(SubSeq(data, e0, i3 - 1), 0)
              ELSE DigitsValue(SubSeq(data, e0, i3 - 1), 0)
  IN IF e >= k
       THEN [t |-> "number", n |-> sgn * mant * Pow10(e - k), d |-> 1]
       ELSE [t |-> "number", n |-> sgn * mant, d |-> Pow10(k - e)]

\* The exponent part, if any: [eE] [+-]? [0-9]+ from i2 on.
ScanExponent(data, sgn, i0, i1, i2, e0) ==
  IF At(data, i2) \notin {101, 69}
    THEN [ok |-> TRUE, pos |-> i2, v |-> NumberValue(data, sgn, i0, i1, i2, i2, i2)]
  ELSE IF DigitRun(data, e0) = e0 THEN ParseFail
  ELSE [ok |-> TRUE, pos |-> DigitRun(data, e0),
        v |-> NumberValue(data, sgn, i0, i1, i2, e0, DigitRun(data, e0))]

\* The fraction part, if any: . [0-9]+ from i1 on.
ScanFraction(data, sgn, i0, i1, i2) ==
  IF i1 = i0 \/ (At(data, i1) = 46 /\ i2 = i1 + 1) THEN ParseFail
  ELSE ScanExponent(data, sgn, i0, i1, i2,
         IF At(data, i2 + 1) \in {43, 45} THEN i2 + 2 ELSE i2 + 1)

\* The integer part from i0 on: 0 | [1-9][0-9]*
ScanInteger(data, sgn, i0, i1) ==
  ScanFraction(data, sgn, i0, i1,
    IF At(data, i1) = 46 THEN DigitRun(data, i1 + 1) ELSE i1)

\* A number literal at i: -? (0 | [1-9][0-9]*) (. [0-9]+)? ([eE] [+-]? [0-9]+)?
ScanSigned(data, sgn, i0) ==
  ScanInteger(data, sgn, i0,
    IF At(data, i0) = 48 THEN i0 + 1 ELSE DigitRun(data, i0))

ScanNumber(data, i) ==
  IF At(data, i) = 45 THEN ScanSigned(data, -1, i + 1) ELSE ScanSigned(data, 1, i)

ScanLiteral(data, i, word, v) ==
  IF SubSeq(data, i, Min(Len(data), i + Len(word) - 1)) = word
    THEN [ok |-> TRUE, pos |-> i + Len(word), v |-> v]
    ELSE ParseFail

RECURSIVE ParseValue(_, _)
RECURSIVE ParseElements(_, _, _)
RECURSIVE ParseMembers(_, _, _)

\* After an element r that ends before index j: a comma or the closing bracket.
ElementNext(data, r, j, acc) ==
  IF ~r.ok THEN ParseFail
  ELSE IF At(data, j) = 44 THEN
    ParseElements(data, SkipSpace(data, j + 1), Append(acc, r.v))
  ELSE IF At(data, j) = 93 THEN
    [ok |-> TRUE, pos |-> j + 1, v |-> [t |-> "array", l |-> Append(acc, r.v)]]
  ELSE ParseFail

ElementParsed(data, r, acc) ==
  ElementNext(data, r, IF r.ok THEN SkipSpace(data, r.pos) ELSE 0, acc)

\* The elements of an array, i at the first byte of the next element.
ParseElements(data, i, acc) == ElementParsed(data, ParseValue(data, i), acc)

\* After a member's value that ends before index j: a comma or the closing brace.
MemberNext(data, j, m) ==
  IF At(data, j) = 44 THEN ParseMembers(data, SkipSpace(data, j + 1), m)
  ELSE IF At(data, j) = 125 THEN
    [ok |-> TRUE, pos |-> j + 1, v |-> [t |-> "object", mem |-> m]]
  ELSE ParseFail

MemberValue(data, key, r, acc) ==
  IF ~r.ok THEN ParseFail
  ELSE MemberNext(data, SkipSpace(data, r.pos), Append(acc, [k |-> key, v |-> r.v]))

\* After the key k whose colon should be at index c.
MemberColon(data, k, c, acc) ==
  IF At(data, c) # 58 THEN ParseFail
  ELSE MemberValue(data, k.v.s, ParseValue(data, SkipSpace(data, c + 1)), acc)

MemberKey(data, k, acc) ==
  IF ~k.ok THEN ParseFail ELSE MemberColon(data, k, SkipSpace(data, k.pos), acc)

\* The members of an object, i at the opening quote of the next key.
ParseMembers(data, i, acc) ==
  IF At(data, i) # 34 THEN ParseFail
  ELSE MemberKey(data, ScanString(data, i + 1, <<>>), acc)

ParseValue(data, i) ==
  LET c == At(data, i)
  IN IF c = 123 THEN
       LET j == SkipSpace(data, i + 1)
       IN IF At(data, j) = 125
            THEN [ok |-> TRUE, pos |-> j + 1, v |-> [t |-> "object", mem |-> <<>>]]
            ELSE ParseMembers(data, j, <<>>)
     ELSE IF c = 91 THEN
       LET j == SkipSpace(data, i + 1)
       IN IF At(data, j) = 93
            THEN [ok |-> TRUE, pos |-> j + 1, v |-> [t |-> "array", l |-> <<>>]]
            ELSE ParseElements(data, j, <<>>)
     ELSE IF c = 34 THEN ScanString(data, i + 1, <<>>)
     ELSE IF c = 45 \/ IsDigit(c) THEN ScanNumber(data, i)
     ELSE IF c = 116 THEN
       ScanLiteral(data, i, <<116, 114, 117, 101>>, [t |-> "bool", b |-> TRUE])
     ELSE IF c = 102 THEN
       ScanLiteral(data, i, <<102, 97, 108, 115, 101>>, [t |-> "bool", b |-> FALSE])
     ELSE IF c = 110 THEN
       ScanLiteral(data, i, <<110, 117, 108, 108>>, [t |-> "null"])
     ELSE ParseFail

\* json.Unmarshal's checkValid: data is exactly one JSON value with optional
\* white space around it.
ParseDocument(data) ==
  LET r == ParseValue(data, SkipSpace(data, 1))
  IN IF r.ok /\ SkipSpace(data, r.pos) = Len(data) + 1 THEN r ELSE ParseFail

\* json.Decoder.Decode's read of the next value of a stream: the first JSON
\* value of data; what follows it stays unread.
ParseStream(data) == ParseValue(data, SkipSpace(data, 1))

(***************************************************************************)
(* encoding/json: decoding a syntax tree into an interface{}               *)
(***************************************************************************)
\* The map of an object's members: a repeated key keeps its last value.
RECURSIVE ObjectMap(_, _)
ObjectMap(mem, m) ==
  IF mem = <<>> THEN m
  ELSE ObjectMap(Tail(mem),
         [k \in DOMAIN m \cup {Head(mem).k} |->
            IF k = Head(mem).k THEN Head(mem).v ELSE m[k]])

RECURSIVE ToInterface(_)
ToInterface(tree) ==
  IF tree.t = "null" THEN NilV
  ELSE IF tree.t = "bool" THEN BoolV(tree.b)
  ELSE IF tree.t = "number" THEN Float64V(tree.n, tree.d)
  ELSE IF tree.t = "string" THEN StringV(tree.s)
  ELSE IF tree.t = "array" THEN SliceV([i \in DOMAIN tree.l |-> ToInterface(tree.l[i])])
  ELSE LET mem == [i \in DOMAIN tree.mem |->
                     [k |-> tree.mem[i].k, v |-> ToInterface(tree.mem[i].v)]]
       IN MapV(ObjectMap(mem, <<>>))

\* json.Unmarshal(data, &result) with result a nil map[string]interface{}, r
\* the scanned document: a syntax error and a value that is neither an object
\* nor null are errors; the literal null leaves the map nil and is no error.
unmarshalMapTree(r) ==
  IF ~r.ok THEN [ok |-> FALSE, v |-> NilMap]
  ELSE IF r.v.t = "null" THEN [ok |-> TRUE, v |-> NilMap]
  ELSE IF r.v.t = "object" THEN [ok |-> TRUE, v |-> ToInterface(r.v)]
  ELSE [ok |-> FALSE, v |-> NilMap]

UnmarshalMap(data) == unmarshalMapTree(ParseDocument(data))

(***************************************************************************)
(* main.go: parseIDsFromPath                                               *)
(***************************************************************************)
\* strings.Split(s, sep) for a one-byte separator.
RECURSIVE Split(_, _)
Split(s, sep) ==
  IF \A i \in DOMAIN s : s[i] # sep THEN <<s>>
  ELSE LET i == CHOOSE i \in DOMAIN s :
                  s[i] = sep /\ \A j \in 1..(i - 1) : s[j] # sep
       IN <<SubSeq(s, 1, i - 1)>> \o Split(SubSeq(s, i + 1, Len(s)), sep)

\* unicode.IsSpace, as UTF-8: the six ASCII spaces, U+0085, U+00A0 and the
\* space separators of the Basic Multilingual Plane.
SpaceRunes ==
  {<<9>>, <<10>>, <<11>>, <<12>>, <<13>>, <<32>>, <<194, 133>>, <<194, 160>>,
   <<225, 154, 128>>, <<226, 128, 168>>, <<226, 128, 169>>, <<226, 128, 175>>,
   <<226, 129, 159>>, <<227, 128, 128>>}
  \cup {<<226, 128, b>> : b \in 128..138}

HasPrefix(s, pre) == Len(s) >= Len(pre) /\ SubSeq(s, 1, Len(pre)) = pre

HasSuffix(s, suf) ==
  Len(s) >= Len(suf) /\ SubSeq(s, Len(s) - Len(suf) + 1, Len(s)) = suf

RECURSIVE TrimLeft(_)
TrimLeft(s) ==
  IF \E w \in SpaceRunes : HasPrefix(s, w)
    THEN LET w == CHOOSE w \in SpaceRunes : HasPrefix(s, w)
         IN TrimLeft(SubSeq(s, Len(w) + 1, Len(s)))
    ELSE s

RECURSIVE TrimRight(_)
TrimRight(s) ==
  IF \E w \in SpaceRunes : HasSuffix(s, w)
    THEN LET w == CHOOSE w \in SpaceRunes : HasSuffix(s, w)
         IN TrimRight(SubSeq(s, 1, Len(s) - Len(w)))
    ELSE s

TrimSpace(s) == TrimRight(TrimLeft(s))

\* parseIDsLoop with the bug of keeping the tokens that trim to nothing.
RECURSIVE parseIDsLoopKeepsEmpty(_, _)
parseIDsLoopKeepsEmpty(parts, ids) ==
  IF parts = <<>> THEN ids
  ELSE parseIDsLoopKeepsEmpty(Tail(parts), Append(ids, TrimSpace(Head(parts))))

\* The loop of parseIDsFromPath over parts[from..], ids the tokens kept so far.
RECURSIVE parseIDsLoop(_, _)
parseIDsLoop(parts, ids) ==
  IF parts = <<>> THEN ids
  ELSE LET trimmed == TrimSpace(Head(parts))
       IN parseIDsLoop(Tail(parts),
            IF trimmed # <<>> THEN Append(ids, trimmed) ELSE ids)

parseIDsFromPath(path) ==
  IF path = <<>> THEN <<>>
  ELSE parseIDsLoop(Split(path, 44), <<>>)

(***************************************************************************)
(* main.go: the cursor codec                                               *)
(***************************************************************************)
encodeCursorJSON(jsonData) ==
  IF ~jsonData.ok THEN [err |-> TRUE, cursor |-> <<>>]
  ELSE [err |-> FALSE, cursor |-> Base64Encode(jsonData.data)]

encodeCursor(data) == encodeCursorJSON(Marshal(data))

\* Lines 112-116: result is what json.Unmarshal made of the decoded bytes.
decodeCursorJSON(result) ==
  IF ~result.ok THEN [err |-> TRUE, result |-> NilMap]
  ELSE [err |-> FALSE, result |-> result.v]

\* Lines 108-111: data is what base64 made of the cursor.
decodeCursorBytes(data) ==
  IF ~data.ok THEN [err |-> TRUE, result |-> NilMap]
  ELSE decodeCursorJSON(UnmarshalMap(data.data))

decodeCursor(c) == decodeCursorBytes(Base64Decode(c))

(***************************************************************************)
(* main.go: paginateList                                                   *)
(***************************************************************************)
\* "start_index"
StartIndexKey == <<115, 116, 97, 114, 116, 95, 105, 110, 100, 101, 120>>

\* startIdx, ok := cursorData["start_index"].(float64); int(startIdx) when ok,
\* else the initial 0.  Reading a nil map gives the zero value, like a miss.
startIndexOf(cursorData) ==
  IF StartIndexKey \in DOMAIN cursorData.m
     /\ cursorData.m[StartIndexKey].t = "float64"
    THEN TruncDiv(cursorData.m[StartIndexKey].n, cursorData.m[StartIndexKey].d)
    ELSE 0

\* The result of a call: kind "ok" (a page), "error" (an error value) or
\* "panic" (the run-time fault of a slice expression out of range).
PageResult(page, hasNext, nextCursor) ==
  [kind |-> "ok", items |-> page, hasNext |-> hasNext, nextCursor |-> nextCursor]
PageError == [kind |-> "error", items |-> <<>>, hasNext |-> FALSE, nextCursor |-> <<>>]
PagePanic == [kind |-> "panic", items |-> <<>>, hasNext |-> FALSE, nextCursor |-> <<>>]

\* pageResult with the bug of offering a cursor on the last page too.
pageResultAlwaysNext(list, startIndex, endIndex, next) ==
  IF endIndex <= Len(list) THEN
    IF next.err THEN PageError
    ELSE PageResult(Slice(list, startIndex, endIndex), TRUE, next.cursor)
  ELSE PageResult(Slice(list, startIndex, endIndex), FALSE, <<>>)

\* Lines 141-150: the result for the page [startIndex, endIndex), next the
\* encoded cursor {"start_index": endIndex}.
pageResult(list, startIndex, endIndex, next) ==
  IF endIndex < Len(list) THEN
    IF next.err THEN PageError
    ELSE PageResult(Slice(list, startIndex, endIndex), TRUE, next.cursor)
  ELSE PageResult(Slice(list, startIndex, endIndex), FALSE, <<>>)

\* pageSlice with the bug of resuming one item too far.
pageSliceGap(list, startIndex, endIndex) ==
  IF startIndex < 0 \/ startIndex > endIndex THEN PagePanic
  ELSE pageResult(list, startIndex, endIndex,
         encodeCursor(MapV(StartIndexKey :> IntV(endIndex + 1))))

\* Line 136: items[startIndex:endIndex] faults unless 0 <= startIndex <= endIndex
\* (endIndex <= len(items) <= cap(items) holds by lines 131-134).
pageSlice(list, startIndex, endIndex) ==
  IF startIndex < 0 \/ startIndex > endIndex THEN PagePanic
  ELSE pageResult(list, startIndex, endIndex,
         encodeCursor(MapV(StartIndexKey :> IntV(endIndex))))

\* pageFrom with the bug of a page one item too long.
pageFromLong(list, startIndex, psize) ==
  pageSlice(list, startIndex, Min(startIndex + psize + 1, Len(list)))

\* Lines 131-134: endIndex is startIndex + pageSize, cut to len(items).
pageFrom(list, startIndex, psize) ==
  pageSlice(list, startIndex, Min(startIndex + psize, Len(list)))

\* Lines 122-129: cursorData is what decodeCursor made of the cursor.
pageAfter(list, cursorData, psize) ==
  IF cursorData.err THEN PageError
  ELSE pageFrom(list, startIndexOf(cursorData.result), psize)

paginateList(list, c, psize) ==
  IF c = <<>> THEN pageFrom(list, 0, psize)
  ELSE pageAfter(list, decodeCursor(c), psize)

(***************************************************************************)
(* Bounds of the model                                                     *)
(***************************************************************************)
MaxItems == 10       \* longest list paged
MaxPageSize == 3     \* largest page size
MaxPathLen == 5      \* longest generated resource path
MaxBatch == 3        \* longest identifier batch
MaxFields == 2       \* most fields of a cursor mapping
MaxInfo == 201       \* longest list a backend call returns

(***************************************************************************)
(* The states before any call                                              *)
(***************************************************************************)
NoCall == [called |-> FALSE, byChain |-> FALSE, cursor |-> <<>>, result |-> PageError]

InitPaginate ==
  /\ items \in {[i \in 1..n |-> i] : n \in 0..MaxItems}
  /\ pageSize \in 1..MaxPageSize
  /\ cursor = <<>>
  /\ visited = <<>>
  /\ calls = 0
  /\ chain = "running"
  /\ lastCall = NoCall

IdlePaginate ==
  /\ items = <<>>
  /\ pageSize = 1
  /\ cursor = <<>>
  /\ visited = <<>>
  /\ calls = 0
  /\ chain = "running"
  /\ lastCall = NoCall

paginateVars == <<items, pageSize, cursor, visited, calls, chain, lastCall>>

NoCodec == [pc |-> "idle", f |-> NilMap, enc |-> [err |-> FALSE, cursor |-> <<>>],
            dec |-> [err |-> FALSE, result |-> NilMap]]
InitCodec == codec = NoCodec

NoPathCall == [called |-> FALSE, path |-> <<>>, ids |-> <<>>]
InitPath == pathCall = NoPathCall

NoCoerceCall == [called |-> FALSE, batch |-> <<>>, ids |-> <<>>]
InitCoerce == coerceCall = NoCoerceCall

(***************************************************************************)
(* Callers of paginateList                                                 *)
(***************************************************************************)
\* Cursor payloads a caller may send: every start_index up to two past the
\* longest list, a negative and a fractional one, one of the wrong type, none
\* at all, and JSON texts that are no object or no JSON.
CursorPayloads ==
  {Marshal(MapV(StartIndexKey :> IntV(k))).data : k \in -1..(MaxItems + 2)}
  \cup {Marshal(MapV(StartIndexKey :> v)).data :
          v \in {Float64V(15, 10), StringV(<<50>>), NilV, BoolV(TRUE)}}
  \cup {Marshal(MapV(<<>>)).data,
        Marshal(MapV(<<116>> :> IntV(1))).data,
        <<110, 117, 108, 108>>,                      \* null
        <<51>>,                                      \* 3
        <<34, 97, 34>>,                              \* "a"
        <<91, 49, 93>>,                              \* [1]
        <<116, 114, 117, 101>>,                      \* true
        <<123, 34, 115, 116, 97, 114, 116>>,         \* {"start   (cut short)
        <<32, 123, 125, 10>>}                        \* an object in white space

\* Cursor strings: the payloads encoded, and encodings damaged in transit.
CursorInputs ==
  LET good == {Base64Encode(pl) : pl \in CursorPayloads}
      one  == Base64Encode(Marshal(MapV(StartIndexKey :> IntV(1))).data)
  IN good \cup {SubSeq(one, 1, Len(one) - 1),          \* truncated
                <<33>> \o Tail(one),                    \* a byte outside the alphabet
                <<10>> \o one,                          \* a line break (skipped)
                <<61, 61, 61, 61>>}                     \* padding only

\* One step of a client that pages through the list: it calls paginateList
\* with the cursor it holds and keeps the returned nextCursor.
ChainStep ==
  /\ chain = "running"
  /\ \E r \in {paginateList(items, cursor, pageSize)} :
        /\ lastCall' = [called |-> TRUE, byChain |-> TRUE, cursor |-> cursor, result |-> r]
        /\ calls' = calls + 1
        /\ visited' = visited \o r.items
        /\ chain' = IF r.kind # "ok" THEN "failed"
                    ELSE IF r.hasNext THEN "running" ELSE "done"
        /\ cursor' = IF r.kind = "ok" /\ r.hasNext THEN r.nextCursor ELSE cursor
  /\ UNCHANGED <<items, pageSize, codec, pathCall, coerceCall, rpc, inv, pool, wire>>

\* A single call with a cursor of the caller's own making.
CursorCall ==
  \E c \in CursorInputs :
    /\ lastCall' = [called |-> TRUE, byChain |-> FALSE, cursor |-> c,
                    result |-> paginateList(items, c, pageSize)]
    /\ UNCHANGED <<items, pageSize, cursor, visited, calls, chain,
                   codec, pathCall, coerceCall, rpc, inv, pool, wire>>

NextPaginate == ChainStep \/ CursorCall

(***************************************************************************)
(* main.go: the identifier batches of handleManageTags (380-393),          *)
(* handleChangeCardState (429-442) and handleDeleteNotes (552-565)         *)
(***************************************************************************)
\* int(v) of a finite float64: the fraction is discarded.
Float64ToInt(v) == TruncDiv(v.n, v.d)

\* One turn of the loop: the type switch on an entry.  A string is appended
\* when strconv.Atoi accepts it, a float64 is converted, an int is appended as
\* it is, and no case matches any other type.
coerceID(ids, id) ==
  IF id.t = "string" THEN
    IF Atoi(id.s).ok THEN Append(ids, Atoi(id.s).n) ELSE ids
  ELSE IF id.t = "float64" THEN Append(ids, Float64ToInt(id))
  ELSE IF id.t = "int" THEN Append(ids, id.n)
  ELSE ids

RECURSIVE coerceIDs(_, _)
coerceIDs(batch, ids) ==
  IF batch = <<>> THEN ids ELSE coerceIDs(Tail(batch), coerceID(ids, Head(batch)))

\* Entries of a batch: tool arguments are decoded from JSON, so a number is a
\* finite float64; an int only comes from a caller inside the program.
BatchEntries ==
  {StringV(<<49, 50>>),               \* "12"
   Float64V(12, 1),                   \* 12
   IntV(12),
   StringV(<<45, 51>>),               \* "-3"
   StringV(<<48, 48, 55>>),           \* "007"
   Float64V(127, 10),                 \* 12.7
   Float64V(5, 10),                   \* 0.5
   StringV(<<97, 98, 99>>),           \* "abc"
   StringV(<<32, 55>>),               \* " 7"
   StringV(<<>>),
   NilV,
   BoolV(TRUE)}

RECURSIVE BatchesOfLen(_)
BatchesOfLen(n) ==
  IF n = 0 THEN {<<>>}
  ELSE {Append(b, e) : b \in BatchesOfLen(n - 1), e \in BatchEntries}

Batches == UNION {BatchesOfLen(n) : n \in 0..MaxBatch}

\* A handler coerces the batch of its arguments.
CoerceBatch ==
  \E batch \in Batches :
    /\ ~coerceCall.called
    /\ coerceCall' = [called |-> TRUE, batch |-> batch, ids |-> coerceIDs(batch, <<>>)]
    /\ UNCHANGED <<paginateVars, codec, pathCall, rpc, inv, pool, wire>>

\* The handler goes on with the integers; the next invocation may start.
CoerceReturn ==
  /\ coerceCall.called
  /\ coerceCall' = NoCoerceCall
  /\ UNCHANGED <<paginateVars, codec, pathCall, rpc, inv, pool, wire>>

NextCoerce == CoerceBatch \/ CoerceReturn

(***************************************************************************)
(* Callers of parseIDsFromPath                                             *)
(***************************************************************************)
PathAlphabet == {44, 32, 9, 49, 50}        \* , space tab 1 2

RECURSIVE PathsOfLen(_)
PathsOfLen(n) ==
  IF n = 0 THEN {<<>>}
  ELSE {Append(p, c) : p \in PathsOfLen(n - 1), c \in PathAlphabet}

\* The paths of the repository's tests and some with other white space.
ExamplePaths ==
  {<<49, 50, 51>>,                                            \* 123
   <<49, 50, 51, 44, 52, 53, 54>>,                            \* 123,456
   <<49, 50, 51, 44, 32, 52, 53, 54, 44, 32, 55, 56, 57>>,    \* 123, 456, 789
   <<49, 50, 51, 44, 32, 44, 32, 52, 53, 54>>,                \* 123, , 456
   <<194, 160, 49, 44, 227, 128, 128, 44, 50, 10>>,           \* NBSP 1 , U+3000 , 2 LF
   <<49, 32, 50, 44, 44, 51>>}                                \* 1 2,,3

Paths == UNION {PathsOfLen(n) : n \in 0..MaxPathLen} \cup ExamplePaths

\* A resource handler parses the identifier part of its URI.
ParsePath ==
  \E path \in Paths :
    /\ ~pathCall.called
    /\ pathCall' = [called |-> TRUE, path |-> path, ids |-> parseIDsFromPath(path)]
    /\ UNCHANGED <<paginateVars, codec, coerceCall, rpc, inv, pool, wire>>

\* The handler goes on with the tokens; the next invocation may start.
PathReturn ==
  /\ pathCall.called
  /\ pathCall' = NoPathCall
  /\ UNCHANGED <<paginateVars, codec, coerceCall, rpc, inv, pool, wire>>

NextPath == ParsePath \/ PathReturn

(***************************************************************************)
(* Callers of the cursor codec                                             *)
(***************************************************************************)
CursorKeys ==
  {StartIndexKey,
   <<116, 101, 115, 116>>,            \* test
   <<97, 34, 60>>}                    \* a"<

\* Scalar values of a field.
CursorValues ==
  {IntV(50), IntV(0), IntV(-7),
   Float64V(50, 1), Float64V(15, 10), NaN,
   StringV(<<118, 97, 108, 117, 101>>),            \* value
   StringV(<<>>),
   StringV(<<97, 34, 92, 60, 10, 195, 169>>),      \* a " \ < LF e-acute
   StringV(<<255>>),                               \* not UTF-8
   BoolV(TRUE), BoolV(FALSE), NilV}

\* Field mappings of at most MaxFields fields, and the nil mapping.
FieldMappings ==
  {NilMap} \cup
  {MapV(m) : m \in UNION {[K -> CursorValues] :
                            K \in {S \in SUBSET CursorKeys : Cardinality(S) <= MaxFields}}}

CodecEncode ==
  \E f \in FieldMappings :
    /\ codec.pc = "idle"
    /\ \E enc \in {encodeCursor(f)} :
         codec' = [pc |-> IF enc.err THEN "failed" ELSE "encoded",
                   f |-> f, enc |-> enc, dec |-> NoCodec.dec]
    /\ UNCHANGED <<paginateVars, pathCall, coerceCall, rpc, inv, pool, wire>>

CodecDecode ==
  /\ codec.pc = "encoded"
  /\ codec' = [codec EXCEPT !.pc = "decoded", !.dec = decodeCursor(codec.enc.cursor)]
  /\ UNCHANGED <<paginateVars, pathCall, coerceCall, rpc, inv, pool, wire>>

\* The caller takes the outcome; the next round may start.
CodecReturn ==
  /\ codec.pc \in {"decoded", "failed"}
  /\ codec' = NoCodec
  /\ UNCHANGED <<paginateVars, pathCall, coerceCall, rpc, inv, pool, wire>>

NextCodec == CodecEncode \/ CodecDecode \/ CodecReturn

(***************************************************************************)
(* main.go: ankiRequest                                                    *)
(***************************************************************************)
ResultKey == <<114, 101, 115, 117, 108, 116>>     \* "result"
ErrorKey == <<101, 114, 114, 111, 114>>           \* "error"

ToLower(s) == [i \in DOMAIN s |-> IF s[i] \in 65..90 THEN s[i] + 32 ELSE s[i]]

\* A JSON key names a struct field when it equals the field's tag, exactly or
\* under case folding.
MatchesField(key, tag) == key = tag \/ ToLower(key) = tag

\* The members of the response object stored into an AnkiResponse, in the
\* order written.  bad: a member's type fits no field (UnmarshalTypeError).
RECURSIVE fillAnkiResponse(_, _)
fillAnkiResponse(mem, resp) ==
  IF mem = <<>> THEN resp
  ELSE LET k == Head(mem).k
           v == Head(mem).v
       IN fillAnkiResponse(Tail(mem),
            IF MatchesField(k, ResultKey) THEN [resp EXCEPT !.Result = ToInterface(v)]
            ELSE IF MatchesField(k, ErrorKey) THEN
              IF v.t = "string" THEN [resp EXCEPT !.Error = v.s]
              ELSE IF v.t = "null" THEN resp
              ELSE [resp EXCEPT !.bad = TRUE]
            ELSE resp)

\* json.NewDecoder(resp.Body).Decode(&ankiResp), r the first value scanned
\* from the body: [ok, Result, Error]
decodeAnkiResponseTree(r, resp) ==
  [ok |-> r.ok /\ r.v.t \in {"object", "null"} /\ ~resp.bad,
   Result |-> resp.Result, Error |-> resp.Error]

decodeAnkiResponseValue(r) ==
  decodeAnkiResponseTree(r,
    IF r.ok /\ r.v.t = "object"
      THEN fillAnkiResponse(r.v.mem, [bad |-> FALSE, Result |-> NilV, Error |-> <<>>])
      ELSE [bad |-> FALSE, Result |-> NilV, Error |-> <<>>])

decodeAnkiResponse(body) == decodeAnkiResponseValue(ParseStream(body))

\* "AnkiConnect error: "
BackendErrorPrefix ==
  <<65, 110, 107, 105, 67, 111, 110, 110, 101, 99, 116, 32,
    101, 114, 114, 111, 114, 58, 32>>

RpcOk(result) == [kind |-> "ok", err |-> "none", msg |-> <<>>, result |-> result]
RpcError(err, msg) == [kind |-> "error", err |-> err, msg |-> msg, result |-> NilV]

\* ankiRequestCheck with the bug of letting a result outweigh the error.
ankiRequestCheckResultFirst(ankiResp) ==
  IF ankiResp.Error # <<>> /\ ankiResp.Result = NilV
    THEN RpcError("backend", BackendErrorPrefix \o ankiResp.Error)
    ELSE RpcOk(ankiResp.Result)

\* Lines 78-82: the error check on the decoded envelope.
ankiRequestCheck(ankiResp) ==
  IF ankiResp.Error # <<>>
    THEN RpcError("backend", BackendErrorPrefix \o ankiResp.Error)
    ELSE RpcOk(ankiResp.Result)

\* Lines 73-76: a body that does not decode is an error.
ankiRequestDecoded(ankiResp) ==
  IF ~ankiResp.ok THEN RpcError("decode", <<>>) ELSE ankiRequestCheck(ankiResp)

\* Lines 73-82: what ankiRequest returns once the response body has arrived.
ankiRequestReturn(body) == ankiRequestDecoded(decodeAnkiResponse(body))

\* pc: "idle" | "awaiting" (inside client.Do) | "done"; sent: requests handed
\* to the HTTP client by this invocation; ctx: "live", or "done" once the
\* caller's context is cancelled or past its deadline.
RpcIdle ==
  [pc |-> "idle", action |-> "", sent |-> 0, ctx |-> "live", fromEnvelope |-> FALSE,
   envelope |-> NilMap, body |-> <<>>, ret |-> RpcOk(NilV)]

\* ankiRequestFinish with the bug of sending the request again after a failure.
ankiRequestFinishRetry(r, ret) ==
  IF ret.kind = "error" /\ r.sent < 2
    THEN [r EXCEPT !.pc = "awaiting", !.sent = r.sent + 1]
    ELSE [r EXCEPT !.pc = "done", !.ret = ret]

\* Lines 69, 75, 79, 82: every outcome of the request is a return statement.
ankiRequestFinish(r, ret) == [r EXCEPT !.pc = "done", !.ret = ret]

\* ctxDoneError with the bug of reporting success.
ctxDoneErrorSwallowed(r) == RpcOk(NilV)

\* Lines 67-70: what client.Do's failure becomes when the context is done.
ctxDoneError(r) == RpcError("request", <<>>)

InitRpc == rpc = RpcIdle

BackendActions == {"version", "findCards", "deleteNotes"}

\* Results a backend may put into the envelope.
BackendResults ==
  {NilV, BoolV(TRUE), Float64V(6, 1), StringV(<<111, 107>>), SliceV(<<>>),
   SliceV(<<Float64V(1, 1), Float64V(2, 1)>>), MapV(<<97>> :> Float64V(15, 10))}

\* The error member of an envelope: a message, the empty string, null, or a
\* value that is no string.
BackendErrors == {StringV(<<98, 111, 111, 109>>), StringV(<<>>), NilV, Float64V(5, 1)}

\* Envelopes {result, error}, either member possibly absent.
Envelopes ==
  {MapV(<<>>)}
  \cup {MapV(ResultKey :> r) : r \in BackendResults}
  \cup {MapV(ErrorKey :> e) : e \in BackendErrors}
  \cup {MapV((ResultKey :> r) @@ (ErrorKey :> e)) : r \in BackendResults, e \in BackendErrors}

\* Response bodies that are no serialised envelope.
RawBodies ==
  {<<>>,                                          \* an empty body
   <<110, 117, 108, 108>>,                        \* null
   <<91, 93>>,                                    \* []
   <<123, 34, 114, 101, 115, 117, 108, 116, 34, 58, 49>>,    \* {"result":1
   <<123, 34, 69, 114, 114, 111, 114, 34, 58, 34, 120, 34, 125>>,  \* {"Error":"x"}
   <<123, 125, 32, 120>>}                         \* {} x

\* Lines 46-67: the request is built and handed to the HTTP client; the
\* caller's context may already be past its deadline.
RpcCall ==
  \E a \in BackendActions, c \in {"live", "done"} :
    /\ rpc.pc = "idle"
    /\ rpc' = [RpcIdle EXCEPT !.pc = "awaiting", !.action = a, !.sent = 1, !.ctx = c]
    /\ UNCHANGED <<paginateVars, codec, pathCall, coerceCall, inv, pool, wire>>

\* The caller cancels, or the caller's deadline or the client's 30 s timeout
\* (line 42) passes, while client.Do waits.
RpcCancel ==
  /\ rpc.pc = "awaiting"
  /\ rpc.ctx = "live"
  /\ rpc' = [rpc EXCEPT !.ctx = "done"]
  /\ UNCHANGED <<paginateVars, codec, pathCall, coerceCall, inv, pool, wire>>

\* Lines 67-70: client.Do returns the context's error.
RpcCtxDone ==
  /\ rpc.pc = "awaiting"
  /\ rpc.ctx = "done"
  /\ rpc' = ankiRequestFinish(rpc, ctxDoneError(rpc))
  /\ UNCHANGED <<paginateVars, codec, pathCall, coerceCall, inv, pool, wire>>

\* Lines 67-70: client.Do fails otherwise (connection refused, reset).
RpcTransportError ==
  /\ rpc.pc = "awaiting"
  /\ rpc' = ankiRequestFinish(rpc, RpcError("request", <<>>))
  /\ UNCHANGED <<paginateVars, codec, pathCall, coerceCall, inv, pool, wire>>

\* The backend answers with an envelope before the context is done.
RpcEnvelope ==
  \E e \in Envelopes :
    /\ rpc.pc = "awaiting"
    /\ rpc.ctx = "live"
    /\ rpc' = ankiRequestFinish([rpc EXCEPT !.fromEnvelope = TRUE, !.envelope = e,
                                            !.body = Marshal(e).data],
                                ankiRequestReturn(Marshal(e).data))
    /\ UNCHANGED <<paginateVars, codec, pathCall, coerceCall, inv, pool, wire>>

\* The backend, or something in its place, answers with other bytes.
RpcRawBody ==
  \E b \in RawBodies :
    /\ rpc.pc = "awaiting"
    /\ rpc.ctx = "live"
    /\ rpc' = ankiRequestFinish([rpc EXCEPT !.body = b], ankiRequestReturn(b))
    /\ UNCHANGED <<paginateVars, codec, pathCall, coerceCall, inv, pool, wire>>

\* The caller takes the return value; the next invocation may start.
RpcReturn ==
  /\ rpc.pc = "done"
  /\ rpc' = RpcIdle
  /\ UNCHANGED <<paginateVars, codec, pathCall, coerceCall, inv, pool, wire>>

NextRpc ==
  \/ RpcCall \/ RpcCancel \/ RpcCtxDone \/ RpcTransportError
  \/ RpcEnvelope \/ RpcRawBody \/ RpcReturn

(***************************************************************************)
(* main.go: the tool and resource handlers                                 *)
(***************************************************************************)
\* What a handler does next, given the outcomes of the backend calls it has
\* made so far: it calls ankiRequest, it returns, or it faults.
Call(action, params) == [kind |-> "call", action |-> action, params |-> params]
Return(result) == [kind |-> "return", result |-> result]
Fault == [kind |-> "panic"]

\* &mcp.CallToolResult{Content: ..., IsError: true}: Text is the format
\* string with its argument, an error of ankiRequest or of paginateList.
ErrorResult(format, arg) ==
  [IsError |-> TRUE, Text |-> [format |-> format, arg |-> arg], result |-> NilV]

\* Arguments of a format string: none, a string (%s), an error (%v).
NoArg == [kind |-> "none"]
StrArg(s) == [kind |-> "string", s |-> s]

\* &mcp.CallToolResult{Content: ...}: Text is a fixed confirmation.
TextResult(text) ==
  [IsError |-> FALSE, Text |-> [format |-> text, arg |-> NoArg], result |-> NilV]

\* resultJSON, _ := json.Marshal(result); Text: string(resultJSON)
JSONResult(result) ==
  [IsError |-> FALSE,
   Text |-> [format |-> "%s", arg |-> [kind |-> "json", data |-> Marshal(result).data]],
   result |-> result]

\* A []int as a parameter of a backend call; a slice that was declared and
\* never appended to is nil.
IntSlice(ids) == [t |-> "ints", l |-> ids, isNil |-> ids = <<>>]
MadeIntSlice(ids) == [t |-> "ints", l |-> ids, isNil |-> FALSE]

\* Lines 344-375, 580-595: handleCreateNotes, handleUpdateNote and
\* handleUpdateDeckConfig make one call and report its outcome.
handleCreateNotes(args, replies) ==
  IF replies = <<>> THEN Call("addNotes", [notes |-> args.Notes])
  ELSE IF replies[1].kind = "error"
    THEN Return(ErrorResult("Error creating notes: %v", replies[1]))
  ELSE Return(JSONResult(replies[1].result))

handleUpdateNote(args, replies) ==
  IF replies = <<>> THEN Call("updateNote", [note |-> args.Note])
  ELSE IF replies[1].kind = "error"
    THEN Return(ErrorResult("Error updating note: %v", replies[1]))
  ELSE Return(TextResult("Note updated successfully"))

handleUpdateDeckConfig(args, replies) ==
  IF replies = <<>> THEN Call("saveDeckConfig", [config |-> args.Config])
  ELSE IF replies[1].kind = "error"
    THEN Return(ErrorResult("Error updating deck config: %v", replies[1]))
  ELSE Return(JSONResult(replies[1].result))

\* Lines 377-424.
manageTagsCall(args, noteIDs) ==
  IF args.Action = "add"
    THEN Call("addTags", [notes |-> IntSlice(noteIDs), tags |-> args.Tags])
  ELSE IF args.Action = "delete"
    THEN Call("removeTags", [notes |-> IntSlice(noteIDs), tags |-> args.Tags])
  ELSE Call("replaceTags", [notes |-> IntSlice(noteIDs),
                            tag_to_replace |-> args.TagToReplace,
                            replace_with_tag |-> args.ReplaceWithTag])

handleManageTags(args, replies) ==
  IF args.Action \notin {"add", "delete", "replace"}
    THEN Return(ErrorResult("Invalid action: %s. Must be 'add', 'delete', or 'replace'",
                            StrArg(args.Action)))
  ELSE IF replies = <<>> THEN manageTagsCall(args, coerceIDs(args.NoteIDs, <<>>))
  ELSE IF replies[1].kind = "error"
    THEN Return(ErrorResult("Error managing tags: %v", replies[1]))
  ELSE Return(TextResult("Tags managed successfully"))

\* Lines 426-492.
changeCardStateAction(action) ==
  IF action = "suspend" THEN "suspend"
  ELSE IF action = "unsuspend" THEN "unsuspend"
  ELSE IF action = "forget" THEN "forgetCards"
  ELSE IF action = "relearn" THEN "relearnCards"
  ELSE IF action = "set_due" THEN "setDueDate"
  ELSE "setEaseFactors"

changeCardStateCall(args, cardIDs) ==
  IF args.Action = "set_due"
    THEN Call("setDueDate", [cards |-> IntSlice(cardIDs), days |-> args.Days])
  ELSE IF args.Action = "set_ease"
    THEN Call("setEaseFactors", [cards |-> IntSlice(cardIDs),
                                 easeFactors |-> args.EaseFactors])
  ELSE Call(changeCardStateAction(args.Action), [cards |-> IntSlice(cardIDs)])

\* changeCardStateChecked with the bug of leaving the checks of days and
\* ease_factors to the backend.
changeCardStateUnchecked(args, replies, cardIDs) ==
  IF replies = <<>> THEN changeCardStateCall(args, cardIDs)
  ELSE IF replies[1].kind = "error"
    THEN Return(ErrorResult("Error changing card state: %v", replies[1]))
  ELSE IF args.Action \in {"forget", "relearn"} THEN Return(JSONResult(BoolV(TRUE)))
  ELSE Return(JSONResult(replies[1].result))

\* Lines 447-491: the checks of set_due and set_ease, the call, the result.
changeCardStateChecked(args, replies, cardIDs) ==
  IF args.Action = "set_due" /\ args.Days = ""
    THEN Return(ErrorResult("days parameter required for set_due action", NoArg))
  ELSE IF args.Action = "set_ease" /\ Len(args.EaseFactors) # Len(cardIDs)
    THEN Return(ErrorResult("ease_factors must match card_ids length for set_ease action",
                            NoArg))
  ELSE IF replies = <<>> THEN changeCardStateCall(args, cardIDs)
  ELSE IF replies[1].kind = "error"
    THEN Return(ErrorResult("Error changing card state: %v", replies[1]))
  ELSE IF args.Action \in {"forget", "relearn"} THEN Return(JSONResult(BoolV(TRUE)))
  ELSE Return(JSONResult(replies[1].result))

handleChangeCardState(args, replies) ==
  IF args.Action \notin {"suspend", "unsuspend", "forget", "relearn", "set_due", "set_ease"}
    THEN Return(ErrorResult("Invalid action: %s", StrArg(args.Action)))
  ELSE changeCardStateChecked(args, replies, coerceIDs(args.CardIDs, <<>>))

\* handleDeleteNotes with the bug of skipping the call for an empty batch.
handleDeleteNotesSkipEmpty(args, replies) ==
  IF coerceIDs(args.NoteIDs, <<>>) = <<>>
    THEN Return(TextResult("Notes deleted successfully"))
  ELSE IF replies = <<>>
    THEN Call("deleteNotes", [notes |-> IntSlice(coerceIDs(args.NoteIDs, <<>>))])
  ELSE IF replies[1].kind = "error"
    THEN Return(ErrorResult("Error deleting notes: %v", replies[1]))
  ELSE Return(TextResult("Notes deleted successfully"))

\* Lines 549-578.
handleDeleteNotes(args, replies) ==
  IF replies = <<>>
    THEN Call("deleteNotes", [notes |-> IntSlice(coerceIDs(args.NoteIDs, <<>>))])
  ELSE IF replies[1].kind = "error"
    THEN Return(ErrorResult("Error deleting notes: %v", replies[1]))
  ELSE Return(TextResult("Notes deleted successfully"))

\* handleGUIControl with the bug of answering although show-answer failed.
guiAnswerUnchecked(args, replies) ==
  IF replies = <<>> THEN Call("guiShowAnswer", NilV)
  ELSE IF Len(replies) = 1 THEN Call("guiAnswerCard", [ease |-> args.Ease.v])
  ELSE IF replies[2].kind = "error"
    THEN Return(ErrorResult("Error in GUI control: %v", replies[2]))
  ELSE Return(JSONResult(replies[2].result))

\* Lines 518-526 and 536-546: show the answer, then answer the card.
guiAnswer(args, replies) ==
  IF replies = <<>> THEN Call("guiShowAnswer", NilV)
  ELSE IF replies[1].kind = "error"
    THEN Return(ErrorResult("Error showing answer: %v", replies[1]))
  ELSE IF Len(replies) = 1 THEN Call("guiAnswerCard", [ease |-> args.Ease.v])
  ELSE IF replies[2].kind = "error"
    THEN Return(ErrorResult("Error in GUI control: %v", replies[2]))
  ELSE Return(JSONResult(replies[2].result))

\* guiAnswerChecked with the bug of letting the grades 0 and 5 through.
guiAnswerCheckedWide(args, replies) ==
  IF args.Ease.isNil
    THEN Return(ErrorResult("ease parameter required for answer action", NoArg))
  ELSE IF args.Ease.v < 0 \/ args.Ease.v > 5
    THEN Return(ErrorResult("ease must be 1 (Again), 2 (Hard), 3 (Good), or 4 (Easy)",
                            NoArg))
  ELSE guiAnswer(args, replies)

\* Lines 505-517: the checks of the ease parameter (a *int, nil when absent).
guiAnswerChecked(args, replies) ==
  IF args.Ease.isNil
    THEN Return(ErrorResult("ease parameter required for answer action", NoArg))
  ELSE IF args.Ease.v < 1 \/ args.Ease.v > 4
    THEN Return(ErrorResult("ease must be 1 (Again), 2 (Hard), 3 (Good), or 4 (Easy)",
                            NoArg))
  ELSE guiAnswer(args, replies)

guiControlAction(action) ==
  IF action = "current_card" THEN "guiCurrentCard"
  ELSE IF action = "show_answer" THEN "guiShowAnswer"
  ELSE "guiUndo"

\* Lines 501-504, 527-528 and 536-546: the actions of one call.
guiSingleCall(args, replies) ==
  IF replies = <<>> THEN Call(guiControlAction(args.Action), NilV)
  ELSE IF replies[1].kind = "error"
    THEN Return(ErrorResult("Error in GUI control: %v", replies[1]))
  ELSE Return(JSONResult(replies[1].result))

\* Lines 494-547.
handleGUIControl(args, replies) ==
  IF args.Action \in {"current_card", "show_answer", "undo"}
    THEN guiSingleCall(args, replies)
  ELSE IF args.Action = "answer" THEN guiAnswerChecked(args, replies)
  ELSE Return(ErrorResult(
         "Invalid action: %s. Available actions are: current_card, show_answer, answer, undo",
         StrArg(args.Action)))

\* Line 322: the page size of search.
SearchPageSize == 100

CardsBytes == <<99, 97, 114, 100, 115>>
NotesBytes == <<110, 111, 116, 101, 115>>
SearchTypeKey == <<115, 101, 97, 114, 99, 104, 95, 116, 121, 112, 101>>
QueryKey == <<113, 117, 101, 114, 121>>
TotalFoundKey == <<116, 111, 116, 97, 108, 95, 102, 111, 117, 110, 100>>
ItemsKey == <<105, 116, 101, 109, 115>>
NextCursorKey == <<110, 101, 120, 116, 67, 117, 114, 115, 111, 114>>

\* The error of paginateList: "invalid cursor: ..." from decodeCursor.
CursorError == [kind |-> "error", err |-> "invalid cursor", msg |-> <<>>, result |-> NilV]

\* Lines 330-336: the map that search returns; a key that paginateList did
\* not set reads as nil.
searchResult(args, resultIDs, paginated) ==
  MapV((SearchTypeKey :> StringV(IF args.SearchType = "cards" THEN CardsBytes
                                 ELSE NotesBytes))
       @@ (QueryKey :> StringV(args.Query))
       @@ (TotalFoundKey :> IntV(Len(resultIDs)))
       @@ (ItemsKey :> SliceV(paginated.items))
       @@ (NextCursorKey :> IF paginated.hasNext THEN StringV(paginated.nextCursor)
                            ELSE NilV))

\* Lines 322-341.
searchPaginated(args, resultIDs, paginated) ==
  IF paginated.kind = "panic" THEN Fault
  ELSE IF paginated.kind = "error"
    THEN Return(ErrorResult("Error paginating results: %v", CursorError))
  ELSE Return(JSONResult(searchResult(args, resultIDs, paginated)))

\* searchPaginate with the bug of a page size one too large.
searchPaginateWide(args, resultIDs, data) ==
  searchPaginated(args, resultIDs, paginateList(data, args.Cursor, SearchPageSize + 1))

\* Line 322: the info list is paged by the caller's cursor.
searchPaginate(args, resultIDs, data) ==
  searchPaginated(args, resultIDs, paginateList(data, args.Cursor, SearchPageSize))

\* Lines 245-263 and 300-318: the info lookup for the identifiers found.
searchInfo(args, resultIDs, replies) ==
  IF Len(replies) = 1 THEN
    IF args.SearchType = "cards"
      THEN Call("cardsInfo", [cards |-> MadeIntSlice(resultIDs)])
      ELSE Call("notesInfo", [notes |-> MadeIntSlice(resultIDs)])
  ELSE IF replies[2].kind = "error" THEN
    Return(ErrorResult(IF args.SearchType = "cards" THEN "Error getting cards info: %v"
                       ELSE "Error getting notes info: %v", replies[2]))
  ELSE IF replies[2].result.t = "nil" THEN searchPaginate(args, resultIDs, <<>>)
  ELSE IF replies[2].result.t = "slice"
    THEN searchPaginate(args, resultIDs, replies[2].result.l)
  ELSE Return(ErrorResult(IF args.SearchType = "cards"
                            THEN "Unexpected response format from cardsInfo"
                            ELSE "Unexpected response format from notesInfo", NoArg))

\* Lines 242-244 and 297-299: no lookup when nothing was found.
searchData(args, resultIDs, replies) ==
  IF Len(resultIDs) = 0 THEN searchPaginate(args, resultIDs, <<>>)
  ELSE searchInfo(args, resultIDs, replies)

\* searchIDs with the bug of the lenient coercion: a bad entry is dropped.
searchIDsLenient(args, ids, replies) ==
  IF ids.t = "nil" THEN searchData(args, <<>>, replies)
  ELSE IF ids.t # "slice" THEN searchData(args, <<>>, replies)
  ELSE searchData(args, coerceIDs(ids.l, <<>>), replies)

\* Lines 218-240 and 273-295: the identifiers of the find call's result.
searchIDs(args, ids, replies) ==
  IF ids.t = "nil" THEN searchData(args, <<>>, replies)
  ELSE IF ids.t # "slice" THEN
    Return(ErrorResult(IF args.SearchType = "cards"
                         THEN "Unexpected response format from findCards"
                         ELSE "Unexpected response format from findNotes", NoArg))
  ELSE IF \E i \in DOMAIN ids.l : ids.l[i].t # "float64" THEN
    Return(ErrorResult(IF args.SearchType = "cards"
                         THEN "Non-numeric ID in findCards result"
                         ELSE "Non-numeric ID in findNotes result", NoArg))
  ELSE searchData(args, [i \in DOMAIN ids.l |-> Float64ToInt(ids.l[i])], replies)

\* handleSearch with the bug of rejecting a malformed cursor up front.
handleSearchCursorFirst(args, replies) ==
  IF args.SearchType # "cards" /\ args.SearchType # "notes"
    THEN Return(ErrorResult("search_type must be 'cards' or 'notes'", NoArg))
  ELSE IF args.Cursor # <<>> /\ decodeCursor(args.Cursor).err
    THEN Return(ErrorResult("Error paginating results: %v", CursorError))
  ELSE IF replies = <<>> THEN
    Call(IF args.SearchType = "cards" THEN "findCards" ELSE "findNotes",
         [query |-> args.Query])
  ELSE IF replies[1].kind = "error" THEN
    Return(ErrorResult(IF args.SearchType = "cards" THEN "Error finding cards: %v"
                       ELSE "Error finding notes: %v", replies[1]))
  ELSE searchIDs(args, replies[1].result, replies)

\* Lines 197-342.
handleSearch(args, replies) ==
  IF args.SearchType # "cards" /\ args.SearchType # "notes"
    THEN Return(ErrorResult("search_type must be 'cards' or 'notes'", NoArg))
  ELSE IF replies = <<>> THEN
    Call(IF args.SearchType = "cards" THEN "findCards" ELSE "findNotes",
         [query |-> args.Query])
  ELSE IF replies[1].kind = "error" THEN
    Return(ErrorResult(IF args.SearchType = "cards" THEN "Error finding cards: %v"
                       ELSE "Error finding notes: %v", replies[1]))
  ELSE searchIDs(args, replies[1].result, replies)

(***************************************************************************)
(* main.go: the cards-info and notes-info resource reads                   *)
(***************************************************************************)
TrimPrefix(s, pre) == IF HasPrefix(s, pre) THEN SubSeq(s, Len(pre) + 1, Len(s)) ELSE s
TrimSuffix(s, suf) == IF HasSuffix(s, suf) THEN SubSeq(s, 1, Len(s) - Len(suf)) ELSE s

CardsURIPrefix == <<97, 110, 107, 105, 58, 47, 47, 99, 97, 114, 100, 115, 47>>
NotesURIPrefix == <<97, 110, 107, 105, 58, 47, 47, 110, 111, 116, 101, 115, 47>>
InfoURISuffix == <<47, 105, 110, 102, 111>>

\* return nil, err: the read fails with this error.
ReadError(format, arg) ==
  [IsError |-> TRUE, Text |-> [format |-> format, arg |-> arg], result |-> NilV]

\* Lines 753-758 and 803-808: the tokens that strconv.Atoi accepts.
RECURSIVE atoiIDs(_, _)
atoiIDs(idList, ids) ==
  IF idList = <<>> THEN ids
  ELSE atoiIDs(Tail(idList),
               IF Atoi(Head(idList)).ok THEN Append(ids, Atoi(Head(idList)).n) ELSE ids)

\* infoCollapse with the bug of never collapsing a list of one record.
infoCollapseNever(what, ids, data) == Return(JSONResult(SliceV(data)))

\* Lines 774-789 and 824-839: one identifier gives the first record, or an
\* error when there is none; any other number of identifiers gives the list.
infoCollapse(what, ids, data) ==
  IF Len(ids) = 1 THEN
    IF Len(data) = 0
      THEN Return(ReadError(IF what = "cards" THEN "card %d not found"
                            ELSE "note %d not found", [kind |-> "int", n |-> ids[1]]))
      ELSE Return(JSONResult(data[1]))
  ELSE Return(JSONResult(SliceV(data)))

\* Lines 760-772 and 810-822: the lookup and the shape of its result.
infoLookup(what, ids, replies) ==
  IF replies = <<>> THEN
    IF what = "cards" THEN Call("cardsInfo", [cards |-> IntSlice(ids)])
    ELSE Call("notesInfo", [notes |-> IntSlice(ids)])
  ELSE IF replies[1].kind = "error" THEN Return(ReadError("%v", replies[1]))
  ELSE IF replies[1].result.t = "nil" THEN infoCollapse(what, ids, <<>>)
  ELSE IF replies[1].result.t = "slice" THEN infoCollapse(what, ids, replies[1].result.l)
  ELSE Return(ReadError(IF what = "cards" THEN "unexpected response format from cardsInfo"
                        ELSE "unexpected response format from notesInfo", NoArg))

\* infoRead with the bug of counting the identifiers instead of the tokens.
infoReadCounted(what, idList, replies) ==
  IF Len(atoiIDs(idList, <<>>)) = 0
    THEN Return(ReadError(IF what = "cards" THEN "no card IDs provided"
                          ELSE "no note IDs provided", NoArg))
  ELSE infoLookup(what, atoiIDs(idList, <<>>), replies)

\* Lines 748-751 and 798-801: no token, no lookup.
infoRead(what, idList, replies) ==
  IF Len(idList) = 0
    THEN Return(ReadError(IF what = "cards" THEN "no card IDs provided"
                          ELSE "no note IDs provided", NoArg))
  ELSE infoLookup(what, atoiIDs(idList, <<>>), replies)

\* Lines 742-790.
handleCardsInfo(args, replies) ==
  infoRead("cards",
           parseIDsFromPath(TrimSuffix(TrimPrefix(args.URI, CardsURIPrefix), InfoURISuffix)),
           replies)

\* Lines 792-840.
handleNotesInfo(args, replies) ==
  infoRead("notes",
           parseIDsFromPath(TrimSuffix(TrimPrefix(args.URI, NotesURIPrefix), InfoURISuffix)),
           replies)

\* Lines 842-875: the cards-reviews resource read.
ReviewsURISuffix == <<47, 114, 101, 118, 105, 101, 119, 115>>

\* Lines 860-874: the lookup; the result is returned as it came.
reviewsLookup(ids, replies) ==
  IF replies = <<>> THEN Call("getReviewsOfCards", [cards |-> IntSlice(ids)])
  ELSE IF replies[1].kind = "error" THEN Return(ReadError("%v", replies[1]))
  ELSE IF replies[1].result.t = "nil" THEN Return(JSONResult(SliceV(<<>>)))
  ELSE Return(JSONResult(replies[1].result))

\* Lines 848-858.
reviewsRead(idList, replies) ==
  IF Len(idList) = 0 THEN Return(ReadError("no card IDs provided", NoArg))
  ELSE reviewsLookup(atoiIDs(idList, <<>>), replies)

handleCardsReviews(args, replies) ==
  reviewsRead(parseIDsFromPath(TrimSuffix(TrimPrefix(args.URI, CardsURIPrefix),
                                          ReviewsURISuffix)),
              replies)

(***************************************************************************)
(* Handler invocations.  inv.pc is "idle", "running" (the handler's own     *)
(* code), "calling" (inside ankiRequest) or "done"; inv.calls are the       *)
(* backend calls issued so far, inv.replies what ankiRequest returned for   *)
(* them; inv.end tells a return from a fault.                               *)
(***************************************************************************)
NoInv ==
  [pc |-> "idle", tool |-> "", args |-> NoArg, calls |-> <<>>, replies |-> <<>>,
   end |-> "", result |-> NilV]

InitInv == inv = NoInv

handle(tool, args, replies) ==
  IF tool = "search" THEN handleSearch(args, replies)
  ELSE IF tool = "create_notes" THEN handleCreateNotes(args, replies)
  ELSE IF tool = "update_note" THEN handleUpdateNote(args, replies)
  ELSE IF tool = "manage_tags" THEN handleManageTags(args, replies)
  ELSE IF tool = "change_card_state" THEN handleChangeCardState(args, replies)
  ELSE IF tool = "gui_control" THEN handleGUIControl(args, replies)
  ELSE IF tool = "delete_notes" THEN handleDeleteNotes(args, replies)
  ELSE IF tool = "update_deck_config" THEN handleUpdateDeckConfig(args, replies)
  ELSE IF tool = "cards_info" THEN handleCardsInfo(args, replies)
  ELSE IF tool = "notes_info" THEN handleNotesInfo(args, replies)
  ELSE handleCardsReviews(args, replies)

\* The tools registered with mcp.AddTool, and the two resource reads.
Tools ==
  {"search", "create_notes", "update_note", "manage_tags", "change_card_state",
   "gui_control", "delete_notes", "update_deck_config"}

Resources == {"cards_info", "notes_info", "cards_reviews"}

\* A record of the backend, told from the others by its position in the list.
InfoRecord(i) == MapV(<<105, 100>> :> Float64V(i, 1))

InfoList(n) == SliceV([i \in 1..n |-> InfoRecord(i)])

IDList(n) == SliceV([i \in 1..n |-> Float64V(1000 + i, 1)])

\* List lengths around the page size of search.
InfoLengths == {0, 1, 2, SearchPageSize, SearchPageSize + 1, MaxInfo}

\* Cursors a caller of search may pass.
SearchCursors ==
  {<<>>}
  \cup {encodeCursor(MapV(StartIndexKey :> IntV(k))).cursor :
          k \in {-1, 0, 1, SearchPageSize, 2 * SearchPageSize, MaxInfo, MaxInfo + 1}}
  \cup {Base64Encode(<<110, 117, 108, 108>>),        \* null
        Base64Encode(<<91, 49, 93>>),                \* [1]
        <<33, 33>>}                                  \* !!

SearchArgs ==
  {[SearchType |-> st, Query |-> <<100, 101, 99, 107, 58, 120>>, Cursor |-> c] :
     st \in {"cards", "notes", "decks", ""}, c \in SearchCursors}

HandlerBatches ==
  {<<>>,
   <<Float64V(12, 1)>>,
   <<StringV(<<97, 98, 99>>)>>,
   <<StringV(<<49, 50>>), StringV(<<97, 98, 99>>), Float64V(7, 1)>>}

ManageTagsArgs ==
  {[Action |-> a, NoteIDs |-> ids, Tags |-> "t1 t2", TagToReplace |-> "t1",
    ReplaceWithTag |-> "t3"] :
     a \in {"add", "delete", "replace", "rename", ""}, ids \in HandlerBatches}

ChangeCardStateArgs ==
  {[Action |-> a, CardIDs |-> ids, Days |-> d, EaseFactors |-> e] :
     a \in {"suspend", "unsuspend", "forget", "relearn", "set_due", "set_ease", "bury"},
     ids \in HandlerBatches, d \in {"", "3"},
     e \in {<<>>, <<2500>>, <<2500, 1300>>}}

GUIControlArgs ==
  {[Action |-> a, Ease |-> e] :
     a \in {"current_card", "show_answer", "answer", "undo", "close"},
     e \in {[isNil |-> TRUE, v |-> 0]} \cup {[isNil |-> FALSE, v |-> n] : n \in -1..6}}

DeleteNotesArgs == {[NoteIDs |-> ids] : ids \in HandlerBatches}

InfoPaths ==
  {<<>>, <<49>>, <<49, 44, 50>>, <<97, 98, 99>>, <<49, 44, 97, 98, 99>>,
   <<32, 55, 32, 44, 56, 44, 57>>}

ArgsOf(tool) ==
  IF tool = "search" THEN SearchArgs
  ELSE IF tool = "create_notes" THEN {[Notes |-> <<MapV(<<>>)>>]}
  ELSE IF tool = "update_note" THEN {[Note |-> MapV(<<>>)]}
  ELSE IF tool = "manage_tags" THEN ManageTagsArgs
  ELSE IF tool = "change_card_state" THEN ChangeCardStateArgs
  ELSE IF tool = "gui_control" THEN GUIControlArgs
  ELSE IF tool = "delete_notes" THEN DeleteNotesArgs
  ELSE IF tool = "update_deck_config" THEN {[Config |-> MapV(<<>>)]}
  ELSE IF tool = "cards_info"
    THEN {[URI |-> CardsURIPrefix \o p \o InfoURISuffix] : p \in InfoPaths}
  ELSE IF tool = "notes_info"
    THEN {[URI |-> NotesURIPrefix \o p \o InfoURISuffix] : p \in InfoPaths}
  ELSE {[URI |-> CardsURIPrefix \o p \o ReviewsURISuffix] : p \in InfoPaths}

\* What ankiRequest may return: its errors, and the result of an envelope.
FailedReplies ==
  {RpcError("request", <<>>), RpcError("decode", <<>>),
   RpcError("backend", BackendErrorPrefix \o <<98, 111, 111, 109>>)}

Replies(action) ==
  FailedReplies \cup
  (IF action \in {"findCards", "findNotes"} THEN
     {RpcOk(NilV), RpcOk(StringV(<<120>>)), RpcOk(MapV(<<>>)),
      RpcOk(SliceV(<<Float64V(1001, 1), StringV(<<120>>)>>)),
      RpcOk(SliceV(<<NilV>>))}
     \cup {RpcOk(IDList(n)) : n \in InfoLengths}
   ELSE IF action \in {"cardsInfo", "notesInfo"} THEN
     {RpcOk(NilV), RpcOk(StringV(<<120>>))} \cup {RpcOk(InfoList(n)) : n \in InfoLengths}
   ELSE IF action = "getReviewsOfCards" THEN
     {RpcOk(NilV), RpcOk(MapV(<<>>)), RpcOk(MapV(<<49>> :> InfoList(1)))}
   ELSE {RpcOk(NilV), RpcOk(BoolV(TRUE))})

\* A tool call or a resource read arrives.
Invoke ==
  \E tool \in Tools \cup Resources :
    \E args \in ArgsOf(tool) :
      /\ inv.pc = "idle"
      /\ inv' = [NoInv EXCEPT !.pc = "running", !.tool = tool, !.args = args]
      /\ UNCHANGED <<paginateVars, codec, pathCall, coerceCall, rpc, pool, wire>>

invAfter(i, step) ==
  IF step.kind = "call" THEN
    [i EXCEPT !.pc = "calling",
              !.calls = Append(i.calls, [action |-> step.action, params |-> step.params])]
  ELSE IF step.kind = "return" THEN
    [i EXCEPT !.pc = "done", !.end = "return", !.result = step.result]
  ELSE [i EXCEPT !.pc = "done", !.end = "panic"]

\* The handler runs up to its next ankiRequest call, its return or its fault.
HandlerRun ==
  /\ inv.pc = "running"
  /\ inv' = invAfter(inv, handle(inv.tool, inv.args, inv.replies))
  /\ UNCHANGED <<paginateVars, codec, pathCall, coerceCall, rpc, pool, wire>>

\* ankiRequest returns to the handler.
BackendReply ==
  /\ inv.pc = "calling"
  /\ \E r \in Replies(Last(inv.calls).action) :
       inv' = [inv EXCEPT !.pc = "running", !.replies = Append(inv.replies, r)]
  /\ UNCHANGED <<paginateVars, codec, pathCall, coerceCall, rpc, pool, wire>>

\* The framework takes the outcome; the next invocation may start.
InvReturn ==
  /\ inv.pc = "done"
  /\ inv' = NoInv
  /\ UNCHANGED <<paginateVars, codec, pathCall, coerceCall, rpc, pool, wire>>

NextHandlers == Invoke \/ HandlerRun \/ BackendReply \/ InvReturn

(***************************************************************************)
(* Concurrent invocations.  The framework calls the handlers from several  *)
(* goroutines on the one AnkiServer, whose fields (ankiConnectURL, client)  *)
(* are set in NewAnkiServer and never assigned again.  Every value a        *)
(* handler computes is a local variable of its call, so a member of the     *)
(* pool is an invocation with the responses it consumed; wire is the order  *)
(* in which the requests left and the responses came in.                    *)
(***************************************************************************)
Slots == {1, 2}

NoMember == [inv |-> NoInv, seen |-> <<>>]

InitPool == pool = [s \in Slots |-> NoMember] /\ wire = <<>>

PoolTools == {"gui_control", "search", "delete_notes"}

PoolArgs(tool) ==
  IF tool = "gui_control" THEN
    {[Action |-> "answer", Ease |-> [isNil |-> FALSE, v |-> e]] : e \in {2, 3}}
  ELSE IF tool = "search" THEN
    {[SearchType |-> "cards", Query |-> <<100, 101, 99, 107, 58, 120>>, Cursor |-> <<>>]}
  ELSE {[NoteIDs |-> <<Float64V(12, 1)>>]}

PoolReplies(action) ==
  {RpcError("request", <<>>)} \cup
  (IF action = "findCards" THEN {RpcOk(IDList(1))}
   ELSE IF action = "cardsInfo" THEN {RpcOk(InfoList(1))}
   ELSE {RpcOk(NilV), RpcOk(BoolV(TRUE))})

\* The n-th request of the invocation in slot s, and the response to it.
Request(s, n, action) == [slot |-> s, n |-> n, kind |-> "request", action |-> action]
Response(s, n, action) == [slot |-> s, n |-> n, kind |-> "response", action |-> action]

\* The framework starts a handler in a free slot.
PoolInvoke ==
  \E s \in Slots :
    \E tool \in PoolTools :
      \E args \in PoolArgs(tool) :
        /\ pool[s].inv.pc = "idle"
        /\ pool' = [pool EXCEPT ![s].inv =
                      [NoInv EXCEPT !.pc = "running", !.tool = tool, !.args = args]]
        /\ UNCHANGED <<wire, paginateVars, codec, pathCall, coerceCall, rpc, inv>>

poolStep(m) == [m EXCEPT !.inv = invAfter(m.inv, handle(m.inv.tool, m.inv.args, m.inv.replies))]

\* One handler runs up to its next ankiRequest call, its return or its fault;
\* a call puts its request on the wire.
PoolRun ==
  \E s \in Slots :
    /\ pool[s].inv.pc = "running"
    /\ pool' = [pool EXCEPT ![s] = poolStep(pool[s])]
    /\ wire' = IF pool'[s].inv.pc = "calling"
                 THEN Append(wire, Request(s, Len(pool'[s].inv.calls),
                                           Last(pool'[s].inv.calls).action))
                 ELSE wire
    /\ UNCHANGED <<paginateVars, codec, pathCall, coerceCall, rpc, inv>>

\* deliver with the bug of keeping the response in a field of the server,
\* where every invocation waiting in ankiRequest picks it up.
deliverShared(members, s, n, r) ==
  [t \in DOMAIN members |->
     IF members[t].inv.pc = "calling"
       THEN [inv  |-> [members[t].inv EXCEPT !.pc = "running",
                                            !.replies = Append(@, r)],
             seen |-> Append(members[t].seen, <<s, n>>)]
       ELSE members[t]]

\* Lines 67-82: resp and ankiResp are local to the call of ankiRequest that
\* sent request n of slot s; its outcome r goes to that call alone.
deliver(members, s, n, r) ==
  [members EXCEPT ![s] =
     [inv  |-> [members[s].inv EXCEPT !.pc = "running", !.replies = Append(@, r)],
      seen |-> Append(members[s].seen, <<s, n>>)]]

\* ankiRequest returns to one of the handlers waiting for the backend.
PoolReply ==
  \E s \in Slots :
    /\ pool[s].inv.pc = "calling"
    /\ \E r \in PoolReplies(Last(pool[s].inv.calls).action) :
         pool' = deliver(pool, s, Len(pool[s].inv.calls), r)
    /\ wire' = Append(wire, Response(s, Len(pool[s].inv.calls),
                                     Last(pool[s].inv.calls).action))
    /\ UNCHANGED <<paginateVars, codec, pathCall, coerceCall, rpc, inv>>

\* The framework takes the outcome; the slot is free again.
PoolReturn ==
  \E s \in Slots :
    /\ pool[s].inv.pc = "done"
    /\ pool' = [pool EXCEPT ![s] = NoMember]
    /\ wire' = SelectSeq(wire, LAMBDA e : e.slot # s)
    /\ UNCHANGED <<paginateVars, codec, pathCall, coerceCall, rpc, inv>>

NextPool == PoolInvoke \/ PoolRun \/ PoolReply \/ PoolReturn

(***************************************************************************)
(* Specifications                                                          *)
(***************************************************************************)
InitPaginateSpec ==
  InitPaginate /\ InitCodec /\ InitPath /\ InitCoerce /\ InitRpc /\ InitInv /\ InitPool

SpecPaginate == InitPaginateSpec /\ [][NextPaginate]_vars


InitIdle ==
  IdlePaginate /\ InitCodec /\ InitPath /\ InitCoerce /\ InitRpc /\ InitInv /\ InitPool

SpecRpc == InitIdle /\ [][NextRpc]_vars

\* client.Do selects on the context's Done channel, so a done context is
\* noticed: the step that returns its error is not postponed forever.
SpecRpcLive == SpecRpc /\ WF_vars(RpcCtxDone)

SpecCodec == InitIdle /\ [][NextCodec]_vars

SpecPath == InitIdle /\ [][NextPath]_vars

SpecCoerce == InitIdle /\ [][NextCoerce]_vars

SpecHandlers == InitIdle /\ [][NextHandlers]_vars

SpecPool == InitIdle /\ [][NextPool]_vars

(***************************************************************************)
(* Claims about paginateList, checked under SpecPaginate                   *)
(***************************************************************************)
Ceil(n, p) == (n + p - 1) \div p

\* C1: the cursor chain started with the empty cursor never fails, returns
\* the items in their original order without duplicate or gap, and the call
\* that returns no nextCursor is the one that completes the list.
C1_ChainCoverage ==
  /\ chain # "failed"
  /\ Len(visited) <= Len(items)
  /\ visited = SubSeq(items, 1, Len(visited))
  /\ chain = "done" <=> (calls > 0 /\ visited = items)

C1_Witness ==
  chain = "done" /\ Len(items) = 10 /\ pageSize = 3 /\ visited = items

\* C2: a cursor that decodes and whose start_index is at or past the end of
\* the list gives an empty page without nextCursor, not an error or a fault.
C2_OutOfRangeIsEmptyPage ==
  (/\ lastCall.called
   /\ lastCall.cursor # <<>>
   /\ ~decodeCursor(lastCall.cursor).err
   /\ startIndexOf(decodeCursor(lastCall.cursor).result) >= Len(items))
  => lastCall.result = PageResult(<<>>, FALSE, <<>>)

\* C3: a cursor that is not valid base64, or whose payload is not a JSON
\* object, makes decodeCursor fail and paginateList return that error.
C3_InvalidCursorRejected ==
  (/\ lastCall.called
   /\ lastCall.cursor # <<>>
   /\ \/ ~Base64Decode(lastCall.cursor).ok
      \/ ~ParseDocument(Base64Decode(lastCall.cursor).data).ok
      \/ ParseDocument(Base64Decode(lastCall.cursor).data).v.t # "object")
  => /\ decodeCursor(lastCall.cursor).err
     /\ lastCall.result.kind = "error"

\* C4: a returned page has at most pageSize items; nextCursor is present
\* exactly when items remain after the page, and then decodes to the index
\* just past the last returned item (items[i] = i, so that index is the last
\* item of the page).
C4_PageInvariant ==
  (lastCall.called /\ lastCall.result.kind = "ok") =>
    /\ Len(lastCall.result.items) <= pageSize
    /\ lastCall.result.hasNext <=>
         (lastCall.result.items # <<>> /\ Last(lastCall.result.items) < Len(items))
    /\ lastCall.result.hasNext =>
         /\ ~decodeCursor(lastCall.result.nextCursor).err
         /\ decodeCursor(lastCall.result.nextCursor).result
              = MapV(StartIndexKey :> Float64V(Last(lastCall.result.items), 1))
    /\ ~lastCall.result.hasNext => lastCall.result.nextCursor = <<>>

C4_Witness ==
  /\ lastCall.called /\ ~lastCall.byChain
  /\ lastCall.result.kind = "ok" /\ lastCall.result.hasNext
  /\ Len(lastCall.result.items) = pageSize
  /\ lastCall.result.items[1] > 1

\* C5 as stated: the chain ends after exactly ceil(len(items)/pageSize) calls,
\* for every length including 0.
C5_Original == chain = "done" => calls = Ceil(Len(items), pageSize)

\* C5 as amended: the chain ends after exactly ceil(len(items)/pageSize)
\* calls when the list is not empty, and after exactly one call when it is.
C5_Pages == IF Len(items) = 0 THEN 1 ELSE Ceil(Len(items), pageSize)

C5_ChainLength ==
  /\ chain # "failed"
  /\ calls <= C5_Pages
  /\ chain = "done" <=> calls = C5_Pages

C5_Witness ==
  chain = "done" /\ calls = 4 /\ Len(items) = 10 /\ pageSize = 3

\* C6: a call returns exactly the items whose index lies in
\* [s, min(s + pageSize, len(items))), s the decoded start_index (0 for the
\* empty cursor and for a cursor without a numeric start_index).
C6_InRange(i, sn, sd) ==
  sn <= i * sd /\ i * sd < sn + pageSize * sd /\ i < Len(items)

C6_Expected(m) ==
  IF StartIndexKey \in DOMAIN m /\ m[StartIndexKey].t = "float64"
    THEN SelectSeq(items,
           LAMBDA x : C6_InRange(x - 1, m[StartIndexKey].n, m[StartIndexKey].d))
    ELSE SelectSeq(items, LAMBDA x : C6_InRange(x - 1, 0, 1))

C6_PageIsRange ==
  (lastCall.called /\ (lastCall.cursor = <<>> \/ ~decodeCursor(lastCall.cursor).err))
  => /\ lastCall.result.kind = "ok"
     /\ lastCall.result.items =
          C6_Expected(IF lastCall.cursor = <<>> THEN <<>>
                      ELSE decodeCursor(lastCall.cursor).result.m)

(***************************************************************************)
(* Claims about the cursor codec, checked under SpecCodec                  *)
(***************************************************************************)
\* C7 as stated: for every mapping of string keys to scalar values, encoding
\* succeeds and decoding the encoding returns an equal mapping.
C7_Original ==
  /\ codec.pc # "idle" => ~codec.enc.err
  /\ codec.pc = "decoded" =>
       /\ ~codec.dec.err
       /\ codec.dec.result.m = codec.f.m

RECURSIVE C7_ValidFrom(_, _)
C7_ValidFrom(s, i) ==
  i > Len(s) \/ (UTF8Size(s, i) > 0 /\ C7_ValidFrom(s, i + UTF8Size(s, i)))

C7_IsNaN(v) == v.t = "float64" /\ v.d = 0

C7_Representable(f) ==
  \A k \in DOMAIN f.m :
    /\ C7_ValidFrom(k, 1)
    /\ ~C7_IsNaN(f.m[k])
    /\ f.m[k].t = "string" => C7_ValidFrom(f.m[k].s, 1)

\* A value as it comes back: a number is a float64 of the same value.
C7_Decoded(v) == IF v.t = "int" THEN Float64V(v.n, 1) ELSE v

\* C7 as amended: encoding fails exactly when a value is NaN or infinite; for
\* a mapping of valid UTF-8 strings, booleans, null and finite numbers,
\* decoding the encoding succeeds and returns the same keys with every string,
\* boolean and null unchanged and every number as the float64 of its value.
C7_RoundTrip ==
  /\ codec.pc # "idle" =>
       (codec.enc.err <=> \E k \in DOMAIN codec.f.m : C7_IsNaN(codec.f.m[k]))
  /\ (codec.pc = "decoded" /\ C7_Representable(codec.f)) =>
       /\ ~codec.dec.err
       /\ DOMAIN codec.dec.result.m = DOMAIN codec.f.m
       /\ \A k \in DOMAIN codec.f.m :
            codec.dec.result.m[k] = C7_Decoded(codec.f.m[k])

\* The mapping of TestCursorEncoding.
C7_Witness ==
  /\ codec.pc = "decoded"
  /\ codec.f = MapV((StartIndexKey :> IntV(50))
                    @@ (<<116, 101, 115, 116>> :> StringV(<<118, 97, 108, 117, 101>>)))
  /\ codec.dec.result.m[StartIndexKey] = Float64V(50, 1)

(***************************************************************************)
(* Claims about parseIDsFromPath, checked under SpecPath                   *)
(***************************************************************************)
\* s consists of white space only.
RECURSIVE C8_AllSpace(_)
C8_AllSpace(s) ==
  s = <<>> \/ \E r \in SpaceRunes :
                HasPrefix(s, r) /\ C8_AllSpace(SubSeq(s, Len(r) + 1, Len(s)))

\* t is not empty and neither starts nor ends with white space.
C8_Bare(t) ==
  t # <<>> /\ \A r \in SpaceRunes : ~HasPrefix(t, r) /\ ~HasSuffix(t, r)

\* What is left of tok without the white space around it.
C8_Core(tok) ==
  CHOOSE t \in {SubSeq(tok, a, b) : a \in 1..(Len(tok) + 1), b \in 0..Len(tok)} :
    \E a \in 1..(Len(tok) + 1), b \in 0..Len(tok) :
      /\ a <= b + 1
      /\ t = SubSeq(tok, a, b)
      /\ C8_AllSpace(SubSeq(tok, 1, a - 1))
      /\ C8_AllSpace(SubSeq(tok, b + 1, Len(tok)))
      /\ t = <<>> \/ C8_Bare(t)

C8_Commas(path) == {i \in DOMAIN path : path[i] = 44}

\* The position of the k-th comma; 0 before the first, past the end after
\* the last.
C8_Comma(path, k) ==
  IF k = 0 THEN 0
  ELSE IF k > Cardinality(C8_Commas(path)) THEN Len(path) + 1
  ELSE CHOOSE p \in C8_Commas(path) :
         Cardinality({q \in C8_Commas(path) : q < p}) = k - 1

C8_Field(path, k) ==
  SubSeq(path, C8_Comma(path, k - 1) + 1, C8_Comma(path, k) - 1)

C8_Cores(path) ==
  [k \in 1..(Cardinality(C8_Commas(path)) + 1) |-> C8_Core(C8_Field(path, k))]

\* C8: the tokens returned are the comma-separated fields of the path with the
\* white space around them removed, in their order, without the fields that
\* are empty then; no token is empty, starts or ends with white space, and the
\* empty path gives no token.
C8_Tokens ==
  pathCall.called =>
    /\ pathCall.ids = SelectSeq(C8_Cores(pathCall.path), LAMBDA c : c # <<>>)
    /\ \A i \in DOMAIN pathCall.ids : C8_Bare(pathCall.ids[i])
    /\ pathCall.path = <<>> => pathCall.ids = <<>>

\* "123, , 456" gives 123 and 456.
C8_Witness ==
  /\ pathCall.called
  /\ pathCall.path = <<49, 50, 51, 44, 32, 44, 32, 52, 53, 54>>
  /\ pathCall.ids = << <<49, 50, 51>>, <<52, 53, 54>> >>

(***************************************************************************)
(* Claims about identifier coercion, checked under SpecCoerce              *)
(***************************************************************************)
C9_Digits(s) == IF s # <<>> /\ s[1] \in {43, 45} THEN Tail(s) ELSE s

C9_IsDecimal(s) ==
  C9_Digits(s) # <<>> /\ \A i \in DOMAIN C9_Digits(s) : IsDigit(C9_Digits(s)[i])

RECURSIVE C9_Sum(_, _)
C9_Sum(ds, i) ==
  IF i > Len(ds) THEN 0 ELSE (ds[i] - 48) * Pow10(Len(ds) - i) + C9_Sum(ds, i + 1)

C9_DecimalValue(s) ==
  IF s[1] = 45 THEN -C9_Sum(C9_Digits(s), 1) ELSE C9_Sum(C9_Digits(s), 1)

\* The entry denotes an integer: a decimal string, a float64 without
\* fraction, or an int.
C9_Parseable(e) ==
  \/ e.t = "string" /\ C9_IsDecimal(e.s)
  \/ e.t = "float64" /\ e.d # 0 /\ e.n % e.d = 0
  \/ e.t = "int"

C9_Value(e) ==
  IF e.t = "string" THEN C9_DecimalValue(e.s)
  ELSE IF e.t = "float64" THEN e.n \div e.d
  ELSE e.n

C9_Expected(batch) ==
  [i \in DOMAIN SelectSeq(batch, C9_Parseable) |->
     C9_Value(SelectSeq(batch, C9_Parseable)[i])]

\* C9: the integers a batch is coerced to are those of its entries that
\* denote an integer, in their order; the other entries leave nothing behind.
C9_Coercion ==
  coerceCall.called => coerceCall.ids = C9_Expected(coerceCall.batch)

(***************************************************************************)
(* Claims about ankiRequest, checked under SpecRpc                         *)
(***************************************************************************)
C10_Member(e, key) == IF key \in DOMAIN e.m THEN e.m[key] ELSE NilV

\* C10: an envelope whose error is a non-empty string makes ankiRequest fail
\* with the backend's message whatever the result is; an envelope whose error
\* is empty, null or absent makes it return the result as it is, nil when
\* the result is null or absent.
C10_EnvelopeError ==
  (rpc.pc = "done" /\ rpc.fromEnvelope) =>
    /\ (C10_Member(rpc.envelope, ErrorKey).t = "string"
        /\ C10_Member(rpc.envelope, ErrorKey).s # <<>>)
       => rpc.ret = RpcError("backend",
                      BackendErrorPrefix \o C10_Member(rpc.envelope, ErrorKey).s)
    /\ (\/ C10_Member(rpc.envelope, ErrorKey).t = "nil"
        \/ C10_Member(rpc.envelope, ErrorKey) = StringV(<<>>))
       => rpc.ret = RpcOk(C10_Member(rpc.envelope, ResultKey))

\* An envelope with both a result and an error message.
C10_Witness ==
  /\ rpc.pc = "done" /\ rpc.fromEnvelope
  /\ C10_Member(rpc.envelope, ErrorKey) = StringV(<<98, 111, 111, 109>>)
  /\ C10_Member(rpc.envelope, ResultKey) = Float64V(6, 1)
  /\ rpc.ret.kind = "error" /\ rpc.ret.err = "backend"

(***************************************************************************)
(* Further claims about ankiRequest, checked under SpecRpc and SpecRpcLive *)
(***************************************************************************)
\* C11: an invocation of ankiRequest hands at most one request to the HTTP
\* client; a transport failure, a cancellation, a body that does not decode
\* and a backend error all end the invocation after that one request.
C11_SingleRequest ==
  /\ rpc.sent <= 1
  /\ rpc.pc \in {"awaiting", "done"} => rpc.sent = 1

\* A call that ended with a body that does not decode, after one request.
C11_Witness ==
  /\ rpc.pc = "done" /\ rpc.sent = 1
  /\ rpc.ret.kind = "error" /\ rpc.ret.err = "decode"

\* C12: a call whose context is done (deadline passed before the call, or
\* cancelled while client.Do waits) before a response has arrived never
\* returns a result and eventually returns the request error, whether or not
\* the backend ever answers.
C12_CancelledReturns ==
  /\ [](rpc.ctx = "done" /\ rpc.pc = "done"
          => rpc.ret.kind = "error" /\ rpc.ret.err = "request")
  /\ (rpc.pc = "awaiting" /\ rpc.ctx = "done")
       ~> (rpc.pc = "done" /\ rpc.ctx = "done" /\ rpc.ret.kind = "error")

C12_Witness ==
  rpc.pc = "done" /\ rpc.ctx = "done" /\ rpc.ret = RpcError("request", <<>>)

(***************************************************************************)
(* C13: every validation failure is reported as an error result with zero  *)
(* backend calls issued by that invocation: search with a mode other than  *)
(* 'cards'/'notes', manage-tags with an action outside {add, delete,       *)
(* replace}, change-card-state with an action outside its six values,      *)
(* set_due without days, set_ease with an ease_factors length other than    *)
(* the number of card identifiers, gui-control with an unknown action or    *)
(* an 'answer' without ease.                                                *)
(***************************************************************************)
C13_ValidationFails ==
  \/ /\ inv.tool = "search"
     /\ inv.args.SearchType \notin {"cards", "notes"}
  \/ /\ inv.tool = "manage_tags"
     /\ inv.args.Action \notin {"add", "delete", "replace"}
  \/ /\ inv.tool = "change_card_state"
     /\ \/ inv.args.Action \notin
             {"suspend", "unsuspend", "forget", "relearn", "set_due", "set_ease"}
        \/ inv.args.Action = "set_due" /\ inv.args.Days = ""
        \/ /\ inv.args.Action = "set_ease"
           /\ Len(inv.args.EaseFactors) # Len(coerceIDs(inv.args.CardIDs, <<>>))
  \/ /\ inv.tool = "gui_control"
     /\ \/ inv.args.Action \notin {"current_card", "show_answer", "answer", "undo"}
        \/ inv.args.Action = "answer" /\ inv.args.Ease.isNil

C13_ValidationErrorWithoutCall ==
  inv.pc # "idle" /\ C13_ValidationFails =>
    /\ inv.calls = <<>>
    /\ inv.pc \in {"running", "done"}
    /\ inv.pc = "done" => inv.end = "return" /\ inv.result.IsError

C13_Witness ==
  /\ inv.pc = "done"
  /\ inv.tool = "change_card_state"
  /\ inv.args.Action = "set_ease"
  /\ Len(inv.args.EaseFactors) = 1
  /\ Len(inv.args.CardIDs) = 3
  /\ inv.calls = <<>>
  /\ inv.result.IsError

(***************************************************************************)
(* C14: in gui-control 'answer' the backend calls of one invocation are    *)
(* strictly ordered: guiShowAnswer is issued and answered before            *)
(* guiAnswerCard is issued, guiAnswerCard is issued only if guiShowAnswer   *)
(* succeeded, and a guiShowAnswer failure ends the invocation with an       *)
(* error result and no guiAnswerCard call.                                  *)
(***************************************************************************)
C14_IsAnswer == inv.pc # "idle" /\ inv.tool = "gui_control" /\ inv.args.Action = "answer"

C14_AnswerOrder ==
  C14_IsAnswer =>
    /\ Len(inv.calls) <= 2
    /\ Len(inv.calls) >= 1 => inv.calls[1].action = "guiShowAnswer"
    /\ Len(inv.calls) = 2 =>
         /\ inv.calls[2].action = "guiAnswerCard"
         /\ Len(inv.replies) >= 1
         /\ inv.replies[1].kind = "ok"
    /\ \A i \in DOMAIN inv.calls :
         inv.calls[i].action = "guiAnswerCard" => i = 2
    /\ Len(inv.replies) >= 1 /\ inv.replies[1].kind = "error" =>
         /\ Len(inv.calls) = 1
         /\ inv.pc \in {"running", "done"}
         /\ inv.pc = "done" => inv.end = "return" /\ inv.result.IsError

C14_Witness ==
  /\ C14_IsAnswer
  /\ inv.pc = "done"
  /\ Len(inv.calls) = 2
  /\ inv.calls[2] = [action |-> "guiAnswerCard", params |-> [ease |-> 3]]
  /\ inv.replies[1].kind = "ok"
  /\ ~inv.result.IsError

(***************************************************************************)
(* C15: gui-control 'answer' with an ease outside 1..4 returns an error    *)
(* result before any backend call (neither guiShowAnswer nor guiAnswerCard  *)
(* is issued), and for every ease in 1..4 the grade sent to guiAnswerCard   *)
(* equals the supplied ease.                                                *)
(***************************************************************************)
C15_EaseGiven ==
  /\ inv.pc # "idle"
  /\ inv.tool = "gui_control"
  /\ inv.args.Action = "answer"
  /\ ~inv.args.Ease.isNil

C15_EaseRange ==
  C15_EaseGiven =>
    /\ inv.args.Ease.v \notin 1..4 =>
         /\ inv.calls = <<>>
         /\ inv.pc \in {"running", "done"}
         /\ inv.pc = "done" => inv.end = "return" /\ inv.result.IsError
    /\ inv.args.Ease.v \in 1..4 =>
         /\ \A i \in DOMAIN inv.calls :
              inv.calls[i].action = "guiAnswerCard" =>
                inv.calls[i].params = [ease |-> inv.args.Ease.v]
         /\ inv.pc = "done" /\ ~inv.result.IsError =>
              /\ Len(inv.calls) = 2
              /\ inv.calls[2].action = "guiAnswerCard"

C15_Witness ==
  /\ C15_EaseGiven
  /\ inv.pc = "done"
  /\ inv.args.Ease.v = 5
  /\ inv.calls = <<>>
  /\ inv.result.IsError

(***************************************************************************)
(* C16: single-vs-list collapsing in the cards-info and notes-info         *)
(* resource reads.  When exactly one identifier is requested the handler    *)
(* returns the single matching record, or a not-found error if the backend  *)
(* returned an empty list; when two or more identifiers are requested it    *)
(* returns the backend's list unmodified, with no error however many        *)
(* records the backend returned.  The identifiers requested are the         *)
(* integers read from the path.                                             *)
(***************************************************************************)
C16_Requested ==
  atoiIDs(parseIDsFromPath(
            TrimSuffix(TrimPrefix(inv.args.URI,
                                  IF inv.tool = "cards_info" THEN CardsURIPrefix
                                  ELSE NotesURIPrefix),
                       InfoURISuffix)),
          <<>>)

\* The list the backend returned; an absent result stands for the empty list.
C16_Returned ==
  IF inv.replies[1].result.t = "nil" THEN <<>> ELSE inv.replies[1].result.l

C16_Answered ==
  /\ inv.pc = "done"
  /\ inv.tool \in {"cards_info", "notes_info"}
  /\ Len(inv.replies) = 1
  /\ inv.replies[1].kind = "ok"
  /\ inv.replies[1].result.t \in {"nil", "slice"}

C16_Collapse ==
  C16_Answered =>
    /\ inv.end = "return"
    /\ Len(C16_Requested) = 1 /\ C16_Returned = <<>> =>
         /\ inv.result.IsError
         /\ inv.result.Text =
              [format |-> IF inv.tool = "cards_info" THEN "card %d not found"
                          ELSE "note %d not found",
               arg |-> [kind |-> "int", n |-> C16_Requested[1]]]
    /\ Len(C16_Requested) = 1 /\ C16_Returned # <<>> =>
         /\ ~inv.result.IsError
         /\ inv.result.result = C16_Returned[1]
         /\ inv.result.Text.arg.data = Marshal(C16_Returned[1]).data
    /\ Len(C16_Requested) >= 2 =>
         /\ ~inv.result.IsError
         /\ inv.result.result = SliceV(C16_Returned)
         /\ inv.result.Text.arg.data = Marshal(SliceV(C16_Returned)).data

C16_Witness ==
  /\ C16_Answered
  /\ inv.tool = "cards_info"
  /\ Len(C16_Requested) = 2
  /\ Len(C16_Returned) = 1
  /\ ~inv.result.IsError
  /\ inv.result.Text.arg.data = <<91, 123, 34, 105, 100, 34, 58, 49, 125, 93>>

(***************************************************************************)
(* C17: in search, when the find call returns zero identifiers (an empty   *)
(* list or an absent result), the bulk info-lookup call is not issued at    *)
(* all and the handler returns a success result with an empty items list,   *)
(* total_found 0 and no nextCursor.  Stated for the calls whose cursor is   *)
(* absent or decodes.                                                       *)
(***************************************************************************)
C17_FoundNothing ==
  /\ inv.pc \in {"running", "calling", "done"}
  /\ inv.tool = "search"
  /\ Len(inv.replies) >= 1
  /\ inv.replies[1].kind = "ok"
  /\ inv.replies[1].result \in {NilV, SliceV(<<>>)}
  /\ inv.args.Cursor = <<>> \/ ~decodeCursor(inv.args.Cursor).err

C17_EmptySearch ==
  C17_FoundNothing =>
    /\ Len(inv.calls) = 1
    /\ inv.pc \in {"running", "done"}
    /\ inv.pc = "done" =>
         /\ inv.end = "return"
         /\ ~inv.result.IsError
         /\ inv.result.result.m[ItemsKey] = SliceV(<<>>)
         /\ inv.result.result.m[TotalFoundKey] = IntV(0)
         /\ inv.result.result.m[NextCursorKey] = NilV

(***************************************************************************)
(* C18: in search, if the find call's result is not a list or contains any *)
(* non-numeric entry, the handler returns an unexpected-format error result *)
(* and issues no info-lookup call; it never drops the bad entry and         *)
(* continues.                                                               *)
(***************************************************************************)
C18_BadFindResult ==
  /\ inv.pc \in {"running", "calling", "done"}
  /\ inv.tool = "search"
  /\ Len(inv.replies) >= 1
  /\ inv.replies[1].kind = "ok"
  /\ inv.replies[1].result # NilV
  /\ \/ inv.replies[1].result.t # "slice"
     \/ \E i \in DOMAIN inv.replies[1].result.l :
          inv.replies[1].result.l[i].t # "float64"

C18_FormatErrors ==
  IF inv.args.SearchType = "cards"
    THEN {"Unexpected response format from findCards",
          "Non-numeric ID in findCards result"}
    ELSE {"Unexpected response format from findNotes",
          "Non-numeric ID in findNotes result"}

C18_UnexpectedFormat ==
  C18_BadFindResult =>
    /\ Len(inv.calls) = 1
    /\ inv.calls[1].action \in {"findCards", "findNotes"}
    /\ inv.pc \in {"running", "done"}
    /\ inv.pc = "done" =>
         /\ inv.end = "return"
         /\ inv.result.IsError
         /\ inv.result.Text.format \in C18_FormatErrors
         /\ inv.result.Text.arg = NoArg

C18_Witness ==
  /\ C18_BadFindResult
  /\ inv.pc = "done"
  /\ inv.args.SearchType = "cards"
  /\ inv.replies[1].result = SliceV(<<Float64V(1001, 1), StringV(<<120>>)>>)
  /\ inv.result.IsError
  /\ inv.result.Text.format = "Non-numeric ID in findCards result"

(***************************************************************************)
(* C19: a successful search issues the find call before the info-lookup    *)
(* call, paginates the info list with page size 100, and returns a result   *)
(* whose items has at most 100 entries, whose total_found equals the        *)
(* number of identifiers returned by the find call on every page of the     *)
(* chain, and whose nextCursor is present exactly when info records remain  *)
(* after the returned page.                                                 *)
(***************************************************************************)
C19_Succeeded ==
  /\ inv.pc = "done"
  /\ inv.tool = "search"
  /\ inv.end = "return"
  /\ ~inv.result.IsError

\* The identifiers the find call returned.
C19_Found ==
  IF inv.replies[1].result = NilV THEN <<>> ELSE inv.replies[1].result.l

\* The info list: empty when no lookup was made or its result was absent.
C19_Info ==
  IF Len(inv.replies) < 2 \/ inv.replies[2].result = NilV THEN <<>>
  ELSE inv.replies[2].result.l

\* The offset the caller's cursor stands for.
C19_Start ==
  IF inv.args.Cursor = <<>> THEN 0
  ELSE startIndexOf(decodeCursor(inv.args.Cursor).result)

C19_Items == inv.result.result.m[ItemsKey].l

C19_SearchPage ==
  C19_Succeeded =>
    /\ Len(inv.calls) \in {1, 2}
    /\ Len(inv.replies) = Len(inv.calls)
    /\ inv.calls[1] =
         [action |-> IF inv.args.SearchType = "cards" THEN "findCards" ELSE "findNotes",
          params |-> [query |-> inv.args.Query]]
    /\ Len(inv.calls) = 2 =>
         /\ inv.replies[1].kind = "ok"
         /\ inv.calls[2].action =
              (IF inv.args.SearchType = "cards" THEN "cardsInfo" ELSE "notesInfo")
    /\ Len(inv.calls) = 2 <=> C19_Found # <<>>
    /\ Len(C19_Items) <= 100
    /\ C19_Items = SubSeq(C19_Info, C19_Start + 1, Min(C19_Start + 100, Len(C19_Info)))
    /\ inv.result.result.m[TotalFoundKey] = IntV(Len(C19_Found))
    /\ inv.result.result.m[NextCursorKey] # NilV <=>
         C19_Start + Len(C19_Items) < Len(C19_Info)
    /\ inv.result.result.m[NextCursorKey] # NilV =>
         inv.result.result.m[NextCursorKey] =
           StringV(encodeCursor(
             MapV(StartIndexKey :> IntV(C19_Start + Len(C19_Items)))).cursor)

C19_Witness ==
  /\ C19_Succeeded
  /\ C19_Start = 100
  /\ Len(C19_Found) = 2
  /\ Len(C19_Info) = 201
  /\ Len(C19_Items) = 100
  /\ C19_Items[1] = InfoRecord(101)
  /\ inv.result.result.m[NextCursorKey] # NilV

(***************************************************************************)
(* C20: every failure path of every tool handler (backend error, transport *)
(* or cancellation error, unexpected backend format, invalid cursor,        *)
(* validation failure) ends with a structured result carrying the error     *)
(* flag and a human-readable message: no handler invocation ends in an      *)
(* unstructured fault, and no handler returns a success result after one    *)
(* of its backend calls failed.                                             *)
(***************************************************************************)
C20_CallFailed == \E i \in DOMAIN inv.replies : inv.replies[i].kind = "error"

\* A cursor that is not the base64 text of a JSON object.
C20_InvalidCursor ==
  /\ inv.tool = "search"
  /\ inv.args.Cursor # <<>>
  /\ \/ decodeCursor(inv.args.Cursor).err
     \/ decodeCursor(inv.args.Cursor).result.isNil

C20_Failed ==
  \/ C20_CallFailed
  \/ C20_InvalidCursor
  \/ C13_ValidationFails
  \/ C18_BadFindResult

C20_StructuredErrors ==
  inv.pc = "done" /\ inv.tool \in Tools =>
    /\ inv.end = "return"
    /\ C20_Failed => inv.result.IsError /\ inv.result.Text.format # ""

(***************************************************************************)
(* C21: handler invocations running concurrently do not interfere.  Under  *)
(* every interleaving of their steps, the sequence of backend calls each    *)
(* invocation issues and the result it returns depend only on its own       *)
(* arguments and on the backend's responses to its own calls, and each      *)
(* invocation's own backend calls stay in program order (show-answer before *)
(* answer-card) although calls of different invocations may interleave      *)
(* between them.                                                            *)
(***************************************************************************)
\* What the handler does when it runs alone on the responses rs: its calls...
C21_AloneCalls(tool, args, rs, n) ==
  [k \in 1..n |->
     [action |-> handle(tool, args, SubSeq(rs, 1, k - 1)).action,
      params |-> handle(tool, args, SubSeq(rs, 1, k - 1)).params]]

\* ... and the events of slot s on the wire, in program order: request k is
\* followed by response k, and response k by request k + 1.
C21_OwnEvents(s, i) ==
  [j \in 1..(Len(i.calls) + Len(i.replies)) |->
     IF j % 2 = 1 THEN Request(s, (j + 1) \div 2, i.calls[(j + 1) \div 2].action)
     ELSE Response(s, j \div 2, i.calls[j \div 2].action)]

C21_Independent(s) ==
  pool[s].inv.pc # "idle" =>
    /\ pool[s].inv.calls =
         C21_AloneCalls(pool[s].inv.tool, pool[s].inv.args, pool[s].inv.replies,
                        Len(pool[s].inv.calls))
    /\ pool[s].seen = [k \in 1..Len(pool[s].inv.replies) |-> <<s, k>>]
    /\ pool[s].inv.pc = "done" =>
         handle(pool[s].inv.tool, pool[s].inv.args, pool[s].inv.replies)
           = Return(pool[s].inv.result)
    /\ SelectSeq(wire, LAMBDA e : e.slot = s) = C21_OwnEvents(s, pool[s].inv)

C21_NoInterference ==
  /\ \A s \in Slots : C21_Independent(s)
  /\ \A s, t \in Slots :
       /\ pool[s].inv.pc = "done" /\ pool[t].inv.pc = "done"
       /\ pool[s].inv.tool = pool[t].inv.tool
       /\ pool[s].inv.args = pool[t].inv.args
       /\ pool[s].inv.replies = pool[t].inv.replies
       => /\ pool[s].inv.calls = pool[t].inv.calls
          /\ pool[s].inv.result = pool[t].inv.result

\* A call of slot 2 goes out between show-answer and answer-card of slot 1,
\* and the two invocations get different responses to the same call.
C21_Witness ==
  /\ pool[1].inv.pc = "done" /\ pool[2].inv.pc = "done"
  /\ pool[1].inv.tool = "gui_control" /\ pool[2].inv.tool = "gui_control"
  /\ pool[1].inv.replies[1].kind = "ok" /\ pool[2].inv.replies[1].kind = "error"
  /\ \E a, b, c \in DOMAIN wire :
       /\ a < b /\ b < c
       /\ wire[a] = Request(1, 1, "guiShowAnswer")
       /\ wire[b] = Request(2, 1, "guiShowAnswer")
       /\ wire[c] = Request(1, 2, "guiAnswerCard")
  /\ ~pool[1].inv.result.IsError
  /\ pool[2].inv.result.IsError

(***************************************************************************)
(* C22: for every cursor that decodes successfully, whatever integer its   *)
(* start_index holds (negative values included), paginateList only slices   *)
(* within the list bounds, 0 <= start <= end <= len(items), and returns a   *)
(* page or an error value rather than faulting.                             *)
(***************************************************************************)
C22_Decoded ==
  /\ lastCall.called
  /\ lastCall.cursor # <<>>
  /\ ~decodeCursor(lastCall.cursor).err

C22_Start == startIndexOf(decodeCursor(lastCall.cursor).result)

C22_End == Min(C22_Start + pageSize, Len(items))

C22_SliceWithinBounds ==
  C22_Decoded =>
    /\ 0 <= C22_Start
    /\ C22_Start <= C22_End
    /\ C22_End <= Len(items)
    /\ lastCall.result.kind \in {"ok", "error"}

(***************************************************************************)
(* C23: in search, the caller's cursor is decoded only after the backend   *)
(* calls: a search with a valid mode and a malformed cursor issues the find *)
(* call (and the info-lookup call when identifiers were found) before       *)
(* returning the invalid-cursor error result, so an invalid cursor never    *)
(* prevents backend contact.                                                *)
(***************************************************************************)
C23_MalformedCursor ==
  /\ inv.pc = "done"
  /\ inv.tool = "search"
  /\ inv.args.SearchType \in {"cards", "notes"}
  /\ inv.args.Cursor # <<>>
  /\ decodeCursor(inv.args.Cursor).err

\* The find call succeeded with a list of numbers (or nothing at all).
C23_FoundIDs ==
  /\ inv.replies[1].kind = "ok"
  /\ inv.replies[1].result.t \in {"nil", "slice"}
  /\ inv.replies[1].result.t = "slice" =>
       \A i \in DOMAIN inv.replies[1].result.l : inv.replies[1].result.l[i].t = "float64"

C23_NoneFound ==
  inv.replies[1].result.t = "nil" \/ inv.replies[1].result.l = <<>>

\* The info call, where one was due, succeeded with a list (or nothing).
C23_GotInfo ==
  \/ C23_NoneFound
  \/ /\ Len(inv.replies) = 2
     /\ inv.replies[2].kind = "ok"
     /\ inv.replies[2].result.t \in {"nil", "slice"}

C23_CursorError == ErrorResult("Error paginating results: %v", CursorError)

C23_CursorDecodedLast ==
  C23_MalformedCursor =>
    /\ inv.end = "return"
    /\ inv.result.IsError
    /\ Len(inv.calls) >= 1
    /\ Len(inv.replies) = Len(inv.calls)
    /\ inv.calls[1].action =
         (IF inv.args.SearchType = "cards" THEN "findCards" ELSE "findNotes")
    /\ C23_FoundIDs /\ ~C23_NoneFound =>
         /\ Len(inv.calls) = 2
         /\ inv.calls[2].action =
              (IF inv.args.SearchType = "cards" THEN "cardsInfo" ELSE "notesInfo")
    /\ inv.result = C23_CursorError <=> (C23_FoundIDs /\ C23_GotInfo)

C23_Witness ==
  /\ C23_MalformedCursor
  /\ inv.args.Cursor = <<33, 33>>
  /\ Len(inv.calls) = 2
  /\ inv.calls[1].action = "findNotes"
  /\ inv.calls[2].action = "notesInfo"
  /\ inv.result = C23_CursorError

(***************************************************************************)
(* C24: in the cards-info, notes-info and cards-reviews resource reads the *)
(* 'no IDs provided' error is raised only when the path yields zero tokens; *)
(* the singular-vs-list decision and the backend call use the identifiers   *)
(* that survived integer coercion, so a path whose tokens are all           *)
(* non-numeric still issues the lookup call with an empty identifier list,  *)
(* and a path with several tokens of which exactly one is numeric is        *)
(* handled as a single-identifier read.                                     *)
(***************************************************************************)
C24_Tokens ==
  parseIDsFromPath(
    TrimSuffix(TrimPrefix(inv.args.URI,
                          IF inv.tool = "notes_info" THEN NotesURIPrefix
                          ELSE CardsURIPrefix),
               IF inv.tool = "cards_reviews" THEN ReviewsURISuffix ELSE InfoURISuffix))

C24_IDs == atoiIDs(C24_Tokens, <<>>)

C24_NoIDsError ==
  /\ inv.result.IsError
  /\ inv.result.Text =
       [format |-> IF inv.tool = "notes_info" THEN "no note IDs provided"
                   ELSE "no card IDs provided",
        arg |-> NoArg]

\* The identifier list of the lookup call.
C24_Sent ==
  IF inv.tool = "notes_info" THEN inv.calls[1].params.notes.l
  ELSE inv.calls[1].params.cards.l

C24_CoercedIdentifiers ==
  inv.pc # "idle" /\ inv.tool \in Resources =>
    /\ inv.pc = "done" => inv.end = "return" /\ (C24_NoIDsError <=> C24_Tokens = <<>>)
    /\ C24_Tokens = <<>> => inv.calls = <<>>
    /\ C24_Tokens # <<>> /\ (inv.pc # "running" \/ inv.replies # <<>>) =>
         /\ Len(inv.calls) = 1
         /\ inv.calls[1].action =
              (IF inv.tool = "cards_info" THEN "cardsInfo"
               ELSE IF inv.tool = "notes_info" THEN "notesInfo"
               ELSE "getReviewsOfCards")
         /\ C24_Sent = C24_IDs
    /\ /\ inv.pc = "done"
       /\ inv.tool \in {"cards_info", "notes_info"}
       /\ Len(C24_IDs) = 1
       /\ inv.replies # <<>>
       /\ inv.replies[1].kind = "ok"
       /\ inv.replies[1].result.t = "slice"
       => IF inv.replies[1].result.l = <<>>
            THEN inv.result.IsError /\ inv.result.Text.arg = [kind |-> "int", n |-> C24_IDs[1]]
            ELSE ~inv.result.IsError /\ inv.result.result = inv.replies[1].result.l[1]

C24_Witness ==
  /\ inv.pc = "done"
  /\ inv.tool = "cards_info"
  /\ Len(C24_Tokens) = 2
  /\ C24_IDs = <<1>>
  /\ C24_Sent = <<1>>
  /\ inv.replies[1] = RpcOk(InfoList(2))
  /\ inv.result.result = InfoRecord(1)

(***************************************************************************)
(* C25: batch mutation handlers issue their backend call even when         *)
(* identifier coercion leaves no identifier: delete-notes (and manage-tags  *)
(* with a valid action) called with an empty or entirely unparseable ID     *)
(* batch still sends exactly one backend call carrying an empty identifier  *)
(* list and, if the backend reports no error, returns the success           *)
(* confirmation.                                                            *)
(***************************************************************************)
C25_NoIdentifier ==
  /\ inv.pc # "idle"
  /\ \/ inv.tool = "delete_notes"
     \/ inv.tool = "manage_tags" /\ inv.args.Action \in {"add", "delete", "replace"}
  /\ coerceIDs(inv.args.NoteIDs, <<>>) = <<>>

C25_Action ==
  IF inv.tool = "delete_notes" THEN "deleteNotes"
  ELSE IF inv.args.Action = "add" THEN "addTags"
  ELSE IF inv.args.Action = "delete" THEN "removeTags"
  ELSE "replaceTags"

C25_Confirmation ==
  TextResult(IF inv.tool = "delete_notes" THEN "Notes deleted successfully"
             ELSE "Tags managed successfully")

C25_EmptyBatchStillCalls ==
  C25_NoIdentifier =>
    /\ inv.pc # "running" \/ inv.replies # <<>> =>
         /\ Len(inv.calls) = 1
         /\ inv.calls[1].action = C25_Action
         /\ inv.calls[1].params.notes.l = <<>>
    /\ inv.pc = "done" =>
         /\ inv.end = "return"
         /\ Len(inv.replies) = 1
         /\ inv.replies[1].kind = "ok" <=> inv.result = C25_Confirmation
         /\ inv.replies[1].kind = "error" <=> inv.result.IsError

C25_Witness ==
  /\ C25_NoIdentifier
  /\ inv.pc = "done"
  /\ inv.tool = "delete_notes"
  /\ inv.args.NoteIDs = <<StringV(<<97, 98, 99>>)>>
  /\ Len(inv.calls) = 1
  /\ inv.calls[1].params.notes.l = <<>>
  /\ inv.result = TextResult("Notes deleted successfully")

====
